---- MODULE Spec2Model ----
(***************************************************************************)
(* A model of antsi: styled markup -> ANSI (SGR) escape sequences.        *)
(*                                                                         *)
(*   Style model and code tables      src/src/styles.rs                    *)
(*   Lexer                            src/src/lexer.rs                     *)
(*   Parser                           src/src/parser.rs, src/src/parser/   *)
(*   Token list                       src/src/ast/token.rs                 *)
(*   Renderer (tree walk)             spec.md 4.3 (color.rs is not among   *)
(*                                    the source files)                    *)
(*                                                                         *)
(* Strings of the program are sequences of one-character strings.  Bytes   *)
(* written by the renderer are sequences of units: one unit per content    *)
(* character, and for an SGR sequence the units "ESC[", one unit per code, *)
(* ";" between codes, and "m".                                             *)
(***************************************************************************)
EXTENDS Integers, Sequences, FiniteSets, TLC

VARIABLES
    \* ---- renderer (walk of the token tree) ----
    context,    \* CurrentStyle the current nesting level renders its children with
    rstack,     \* open Styled nodes, outermost first: [style, parent, termAtEntry]
    written,    \* the units the last operation appended to the output
    last,       \* the last operation and its arguments: [op, style, parent, termAtEntry]
    term,       \* the terminal's SGR state as driven by the written output
    entered,    \* properties in the styles of the Styled nodes entered so far
    \* ---- parser ----
    source,     \* the input of colorize
    parser,     \* the Parser: [lexer, errors]
    calls,      \* the calls under way, outermost first: [fn, pc, tokens, style]
    ret,        \* what the call that returned last returned
    styleCall,  \* the last call of style: the lexemes it consumed, what it returned
    result      \* what parse, then colorize, returned

rvars == <<context, rstack, written, last, term, entered>>
pvars == <<source, parser, calls, ret, styleCall, result>>
vars == <<context, rstack, written, last, term, entered,
         source, parser, calls, ret, styleCall, result>>

-----------------------------------------------------------------------------
(* Bounds *)

\* deepest nesting of Styled nodes the walk enters
MaxDepth == 2
\* most properties (colours set + decorations named) in the styles of the Styled
\* nodes of one walk
MaxProps == 3
\* most words in an input without control characters
MaxWords == 3
\* most specifiers in the style block of an input
MaxSpecifiers == 3

-----------------------------------------------------------------------------
(* Generic helpers *)

Range(s) == {s[i] : i \in DOMAIN s}

RECURSIVE Join(_, _)
\* slice::join: the items separated by sep
Join(items, sep) ==
    IF Len(items) = 0 THEN <<>>
    ELSE IF Len(items) = 1 THEN <<items[1]>>
    ELSE <<items[1], sep>> \o Join(Tail(items), sep)

\* mutant: insert keeping an item that is already there
IndexSet_insert_appending(set, d) == Append(set, d)

\* IndexSet::insert: appended unless already present
IndexSet_insert(set, d) == IF d \in Range(set) THEN set ELSE Append(set, d)

\* IndexSet::difference: the items of a that are not in b, in a's order
IndexSet_difference(a, b) == SelectSeq(a, LAMBDA d : d \notin Range(b))

RECURSIVE IndexSet_extend(_, _)
\* IndexSet::extend: insert every item of the iterator, in order
IndexSet_extend(set, items) ==
    IF items = <<>> THEN set
    ELSE IndexSet_extend(IndexSet_insert(set, Head(items)), Tail(items))

\* Iterator::map over a sequence
Map(f(_), s) == [i \in DOMAIN s |-> f(s[i])]

-----------------------------------------------------------------------------
(* Style model: src/src/styles.rs *)

Color ==
    {"Black", "Red", "Green", "Yellow", "Blue", "Magenta", "Cyan", "White",
     "Default",
     "BrightBlack", "BrightRed", "BrightGreen", "BrightYellow", "BrightBlue",
     "BrightMagenta", "BrightCyan", "BrightWhite"}

Decoration ==
    {"Bold", "Dim", "Italic", "Underline", "SlowBlink", "FastBlink", "Invert",
     "Hide", "StrikeThrough"}

foreground_code(c) ==
    CASE c = "Black" -> "30" [] c = "Red" -> "31" [] c = "Green" -> "32"
      [] c = "Yellow" -> "33" [] c = "Blue" -> "34" [] c = "Magenta" -> "35"
      [] c = "Cyan" -> "36" [] c = "White" -> "37" [] c = "Default" -> "39"
      [] c = "BrightBlack" -> "90" [] c = "BrightRed" -> "91"
      [] c = "BrightGreen" -> "92" [] c = "BrightYellow" -> "93"
      [] c = "BrightBlue" -> "94" [] c = "BrightMagenta" -> "95"
      [] c = "BrightCyan" -> "96" [] c = "BrightWhite" -> "97"

background_code(c) ==
    CASE c = "Black" -> "40" [] c = "Red" -> "41" [] c = "Green" -> "42"
      [] c = "Yellow" -> "43" [] c = "Blue" -> "44" [] c = "Magenta" -> "45"
      [] c = "Cyan" -> "46" [] c = "White" -> "47" [] c = "Default" -> "49"
      [] c = "BrightBlack" -> "100" [] c = "BrightRed" -> "101"
      [] c = "BrightGreen" -> "102" [] c = "BrightYellow" -> "103"
      [] c = "BrightBlue" -> "104" [] c = "BrightMagenta" -> "105"
      [] c = "BrightCyan" -> "106" [] c = "BrightWhite" -> "107"

apply_code(d) ==
    CASE d = "Bold" -> "1" [] d = "Dim" -> "2" [] d = "Italic" -> "3"
      [] d = "Underline" -> "4" [] d = "SlowBlink" -> "5"
      [] d = "FastBlink" -> "6" [] d = "Invert" -> "7" [] d = "Hide" -> "8"
      [] d = "StrikeThrough" -> "9"

remove_code(d) ==
    CASE d = "Bold" -> "22" [] d = "Dim" -> "22" [] d = "Italic" -> "23"
      [] d = "Underline" -> "24" [] d = "SlowBlink" -> "25"
      [] d = "FastBlink" -> "25" [] d = "Invert" -> "27" [] d = "Hide" -> "28"
      [] d = "StrikeThrough" -> "29"

\* Option<Color>::None; Some(c) is the colour c itself
NoColor == "None"
\* Option<IndexSet<Decoration>>: None, and Some(set) with set a duplicate-free sequence
NoDecoration == [some |-> FALSE, set |-> <<>>]
SomeDecoration(set) == [some |-> TRUE, set |-> set]

\* Style::default(): every field None
Style_default ==
    [foreground |-> NoColor, background |-> NoColor, decoration |-> NoDecoration]

\* CurrentStyle::default(): default colours, no decoration
CurrentStyle_default ==
    [foreground |-> "Default", background |-> "Default", decoration |-> <<>>]

Style_is_empty(self) ==
    LET has_decorations ==
            IF self.decoration.some THEN self.decoration.set = <<>> ELSE TRUE
    IN  self.foreground = NoColor /\ self.background = NoColor /\ has_decorations

\* mutant: append_codes putting the sequence in front of what was written
Style_append_codes_prepending(codes, output) ==
    IF codes = <<>> THEN output
    ELSE <<"ESC[">> \o Join(codes, ";") \o <<"m">> \o output

\* mutant: append_codes without its check for an empty code list
Style_append_codes_unchecked(codes, output) ==
    output \o <<"ESC[">> \o Join(codes, ";") \o <<"m">>

\* Style::append_codes: nothing for an empty code list, else ESC[ codes;... m
Style_append_codes(codes, output) ==
    IF codes = <<>> THEN output
    ELSE output \o <<"ESC[">> \o Join(codes, ";") \o <<"m">>

\* mutant: apply pushing the foreground code whenever the style sets one
Style_apply_codes_unconditional(self, parent) ==
    LET fg == IF self.foreground # NoColor
              THEN <<foreground_code(self.foreground)>> ELSE <<>>
        bg == IF self.background # NoColor /\ self.background # parent.background
              THEN <<background_code(self.background)>> ELSE <<>>
        deco == IF self.decoration.some
                THEN Map(apply_code,
                         IndexSet_difference(self.decoration.set, parent.decoration))
                ELSE <<>>
    IN  fg \o bg \o deco

\* the code list Style::apply builds: foreground, background, decorations
Style_apply_codes(self, parent) ==
    LET fg == IF self.foreground # NoColor /\ self.foreground # parent.foreground
              THEN <<foreground_code(self.foreground)>> ELSE <<>>
        bg == IF self.background # NoColor /\ self.background # parent.background
              THEN <<background_code(self.background)>> ELSE <<>>
        deco == IF self.decoration.some
                THEN Map(apply_code,
                         IndexSet_difference(self.decoration.set, parent.decoration))
                ELSE <<>>
    IN  fg \o bg \o deco

\* mutant: apply starting the output afresh
Style_apply_clearing(self, parent, output) ==
    IF Style_is_empty(self) THEN output
    ELSE Style_append_codes(Style_apply_codes(self, parent), <<>>)

Style_apply(self, parent, output) ==
    IF Style_is_empty(self) THEN output
    ELSE Style_append_codes(Style_apply_codes(self, parent), output)

\* mutant: reset removing every decoration the style names, inherited or not
Style_reset_codes_every_decoration(self, parent) ==
    LET fg == IF self.foreground # NoColor /\ self.foreground # parent.foreground
              THEN <<foreground_code(parent.foreground)>> ELSE <<>>
        bg == IF self.background # NoColor /\ self.background # parent.background
              THEN <<background_code(parent.background)>> ELSE <<>>
        deco == IF self.decoration.some
                THEN Map(remove_code, self.decoration.set)
                ELSE <<>>
    IN  fg \o bg \o deco

\* mutant: reset pushing the span's own colour codes instead of the parent's
Style_reset_codes_own_colour(self, parent) ==
    LET fg == IF self.foreground # NoColor /\ self.foreground # parent.foreground
              THEN <<foreground_code(self.foreground)>> ELSE <<>>
        bg == IF self.background # NoColor /\ self.background # parent.background
              THEN <<background_code(self.background)>> ELSE <<>>
        deco == IF self.decoration.some
                THEN Map(remove_code,
                         IndexSet_difference(self.decoration.set, parent.decoration))
                ELSE <<>>
    IN  fg \o bg \o deco

\* the code list Style::reset builds: the parent's colours, the remove codes
Style_reset_codes(self, parent) ==
    LET fg == IF self.foreground # NoColor /\ self.foreground # parent.foreground
              THEN <<foreground_code(parent.foreground)>> ELSE <<>>
        bg == IF self.background # NoColor /\ self.background # parent.background
              THEN <<background_code(parent.background)>> ELSE <<>>
        deco == IF self.decoration.some
                THEN Map(remove_code,
                         IndexSet_difference(self.decoration.set, parent.decoration))
                ELSE <<>>
    IN  fg \o bg \o deco

Style_reset(self, parent, output) ==
    IF Style_is_empty(self) THEN output
    ELSE Style_append_codes(Style_reset_codes(self, parent), output)

\* mutant: extend replacing the decoration set by the style's
CurrentStyle_extend_replacing(self, style) ==
    LET fg == IF style.foreground # NoColor THEN style.foreground ELSE self.foreground
        bg == IF style.background # NoColor THEN style.background ELSE self.background
        deco == IF style.decoration.some THEN style.decoration.set ELSE self.decoration
    IN  [self |-> self,
         current |-> [foreground |-> fg, background |-> bg, decoration |-> deco]]

\* mutant: extend resolving the background from the style's foreground
CurrentStyle_extend_swapped(self, style) ==
    LET fg == IF style.foreground # NoColor THEN style.foreground ELSE self.foreground
        bg == IF style.foreground # NoColor THEN style.foreground ELSE self.background
        deco == IF style.decoration.some
                THEN IndexSet_extend(self.decoration, style.decoration.set)
                ELSE self.decoration
    IN  [self |-> self,
         current |-> [foreground |-> fg, background |-> bg, decoration |-> deco]]

\* mutant: extend working on self itself instead of a clone
CurrentStyle_extend_in_place(self, style) ==
    LET fg == IF style.foreground # NoColor THEN style.foreground ELSE self.foreground
        bg == IF style.background # NoColor THEN style.background ELSE self.background
        deco == IF style.decoration.some
                THEN IndexSet_extend(self.decoration, style.decoration.set)
                ELSE self.decoration
        current == [foreground |-> fg, background |-> bg, decoration |-> deco]
    IN  [self |-> current, current |-> current]

\* CurrentStyle::extend(&self, style): self is only borrowed, so the call leaves
\* it as it was (.self); the result (.current) is a clone of self with the
\* style's colours put over it and the style's decorations inserted.
CurrentStyle_extend(self, style) ==
    LET clone == self
        fg == IF style.foreground # NoColor THEN style.foreground ELSE clone.foreground
        bg == IF style.background # NoColor THEN style.background ELSE clone.background
        deco == IF style.decoration.some
                THEN IndexSet_extend(clone.decoration, style.decoration.set)
                ELSE clone.decoration
    IN  [self |-> self,
         current |-> [foreground |-> fg, background |-> bg, decoration |-> deco]]

-----------------------------------------------------------------------------
(* The terminal that reads the output: SGR semantics *)

TermDefault == [fg |-> "Default", bg |-> "Default", attrs |-> {}]

ForegroundCodes == {foreground_code(c) : c \in Color}
BackgroundCodes == {background_code(c) : c \in Color}
ApplyCodes == {apply_code(d) : d \in Decoration}
RemoveCodes == {remove_code(d) : d \in Decoration}

\* what each SGR parameter the program can write means to the terminal
ColorOfForeground == [code \in ForegroundCodes |-> CHOOSE c \in Color : foreground_code(c) = code]
ColorOfBackground == [code \in BackgroundCodes |-> CHOOSE c \in Color : background_code(c) = code]
SetByCode == [code \in ApplyCodes |-> CHOOSE d \in Decoration : apply_code(d) = code]
ClearedByCode == [code \in RemoveCodes |-> {d \in Decoration : remove_code(d) = code}]

\* one SGR parameter: a colour code sets that colour, 1..9 set an attribute,
\* 22 clears bold and dim, 25 clears both blinks, 23/24/27/28/29 clear one attribute
Sgr(t, code) ==
    IF code \in ForegroundCodes THEN [t EXCEPT !.fg = ColorOfForeground[code]]
    ELSE IF code \in BackgroundCodes THEN [t EXCEPT !.bg = ColorOfBackground[code]]
    ELSE IF code \in ApplyCodes THEN [t EXCEPT !.attrs = @ \cup {SetByCode[code]}]
    ELSE IF code \in RemoveCodes THEN [t EXCEPT !.attrs = @ \ ClearedByCode[code]]
    ELSE t

RECURSIVE Interpret(_, _, _)
\* the terminal state after reading units; inSeq: inside ESC[ ... m
Interpret(t, units, inSeq) ==
    IF units = <<>> THEN t
    ELSE LET u == Head(units) IN
         IF ~inSeq
         THEN Interpret(t, Tail(units), u = "ESC[")
         ELSE IF u = "m" THEN Interpret(t, Tail(units), FALSE)
         ELSE IF u = ";" THEN Interpret(t, Tail(units), TRUE)
         ELSE Interpret(Sgr(t, u), Tail(units), TRUE)

-----------------------------------------------------------------------------
(* Inputs of the walk: the styles a Styled node may carry *)

ForegroundInputs == {"Default", "Red", "Blue"}
BackgroundInputs == {"Default", "Red"}
DecorationInputs == {"Bold", "Dim", "Italic"}

RECURSIVE Arrangements(_, _)
\* duplicate-free sequences over S of length n
Arrangements(S, n) ==
    IF n = 0 THEN {<<>>}
    ELSE UNION {{Append(s, d) : d \in S \ Range(s)} : s \in Arrangements(S, n - 1)}

\* decorations_specifier never yields an empty set: at least one decoration each
DecorationSetInputs == UNION {Arrangements(DecorationInputs, k) : k \in 1..MaxProps}

Weight(style) ==
    (IF style.foreground # NoColor THEN 1 ELSE 0)
    + (IF style.background # NoColor THEN 1 ELSE 0)
    + Len(style.decoration.set)

\* the styles with at most MaxProps properties
StyleInputs ==
    {s \in [foreground : ForegroundInputs \cup {NoColor},
            background : BackgroundInputs \cup {NoColor},
            decoration : {NoDecoration} \cup
                         {SomeDecoration(d) : d \in DecorationSetInputs}] :
        Weight(s) <= MaxProps}

\* the styles with exactly w properties
StyleInputsOfWeight == [w \in 0..MaxProps |-> {s \in StyleInputs : Weight(s) = w}]


ContentInputs == {<<"x">>}

-----------------------------------------------------------------------------
(* Renderer: spec.md 4.3, render(token, context) *)

NoOp == [op |-> "none", style |-> Style_default, parent |-> CurrentStyle_default,
         before |-> CurrentStyle_default, termAtEntry |-> TermDefault]

RenderInit ==
    /\ context = CurrentStyle_default
    /\ rstack = <<>>
    /\ written = <<>>
    /\ last = NoOp
    /\ term = TermDefault
    /\ entered = 0

\* Content(text): appended verbatim
RenderContent ==
    \E text \in ContentInputs :
        /\ written' = text
        /\ term' = Interpret(term, text, FALSE)
        /\ last' = [NoOp EXCEPT !.op = "content", !.parent = context, !.before = context]
        /\ UNCHANGED <<context, rstack, entered>>
        /\ UNCHANGED pvars

\* Styled{style, children}, steps 1 and 2: child_context = context.extend(style),
\* then the apply codes against the node's own context.  The frame keeps the
\* style and that context for step 4; before and termAtEntry only record the
\* walker's context and the terminal's state when the node was entered.
EnterStyled ==
    /\ Len(rstack) < MaxDepth
    /\ \E w \in 0..(MaxProps - entered) :
       \E style \in StyleInputsOfWeight[w] :
        LET ext == CurrentStyle_extend(context, style)
            out == Style_apply(style, ext.self, <<>>)
            frame == [style |-> style, parent |-> ext.self, before |-> context,
                      termAtEntry |-> term]
        IN  /\ written' = out
            /\ term' = Interpret(term, out, FALSE)
            /\ rstack' = Append(rstack, frame)
            /\ context' = ext.current
            /\ last' = [op |-> "apply", style |-> style, parent |-> ext.self,
                        before |-> context, termAtEntry |-> term]
            /\ entered' = entered + w
            /\ UNCHANGED pvars

\* Styled{style, children}, step 4, after the last child: the reset codes against
\* the node's own context; the walk goes on with the later siblings in that context
ExitStyled ==
    /\ rstack # <<>>
    /\ LET frame == rstack[Len(rstack)]
           out == Style_reset(frame.style, frame.parent, <<>>)
       IN  /\ written' = out
           /\ term' = Interpret(term, out, FALSE)
           /\ rstack' = SubSeq(rstack, 1, Len(rstack) - 1)
           /\ context' = frame.parent
           /\ last' = [op |-> "reset", style |-> frame.style, parent |-> frame.parent,
                       before |-> frame.before, termAtEntry |-> frame.termAtEntry]
    /\ UNCHANGED <<entered, pvars>>

-----------------------------------------------------------------------------
(* Lexer: src/src/lexer.rs *)

\* F of the value of x, x evaluated once
With(x, F(_)) == CHOOSE r \in {F(v) : v \in {x}} : TRUE

None == [some |-> FALSE]
Some(v) == [some |-> TRUE, value |-> v]

LowerCase ==
    [A |-> "a", B |-> "b", C |-> "c", D |-> "d", E |-> "e", F |-> "f", 
     G |-> "g", H |-> "h", I |-> "i", J |-> "j", K |-> "k", L |-> "l", 
     M |-> "m", N |-> "n", O |-> "o", P |-> "p", Q |-> "q", R |-> "r", 
     S |-> "s", T |-> "t", U |-> "u", V |-> "v", W |-> "w", X |-> "x", 
     Y |-> "y", Z |-> "z"]

\* mutant: letters compared as written
to_ascii_lowercase_as_written(ch) == ch

\* one character compared as ignore(ascii_case) compares it
to_ascii_lowercase(ch) == IF ch \in DOMAIN LowerCase THEN LowerCase[ch] ELSE ch

ToLower(text) == [i \in 1..Len(text) |-> to_ascii_lowercase(text[i])]

\* (bright-)?(black|red|green|yellow|blue|magenta|cyan|white), every word the
\* pattern matches
ColorWords ==
    { <<"b", "l", "a", "c", "k">>,
      <<"r", "e", "d">>,
      <<"g", "r", "e", "e", "n">>,
      <<"y", "e", "l", "l", "o", "w">>,
      <<"b", "l", "u", "e">>,
      <<"m", "a", "g", "e", "n", "t", "a">>,
      <<"c", "y", "a", "n">>,
      <<"w", "h", "i", "t", "e">>,
      <<"b", "r", "i", "g", "h", "t", "-", "b", "l", "a", "c", "k">>,
      <<"b", "r", "i", "g", "h", "t", "-", "r", "e", "d">>,
      <<"b", "r", "i", "g", "h", "t", "-", "g", "r", "e", "e", "n">>,
      <<"b", "r", "i", "g", "h", "t", "-", "y", "e", "l", "l", "o", "w">>,
      <<"b", "r", "i", "g", "h", "t", "-", "b", "l", "u", "e">>,
      <<"b", "r", "i", "g", "h", "t", "-", "m", "a", "g", "e", "n", "t", "a">>,
      <<"b", "r", "i", "g", "h", "t", "-", "c", "y", "a", "n">>,
      <<"b", "r", "i", "g", "h", "t", "-", "w", "h", "i", "t", "e">> }

\* the names Color::from_str resolves
ColorNames ==
    { [name |-> <<"d", "e", "f", "a", "u", "l", "t">>, color |-> "Default"],
      [name |-> <<"b", "l", "a", "c", "k">>, color |-> "Black"],
      [name |-> <<"r", "e", "d">>, color |-> "Red"],
      [name |-> <<"g", "r", "e", "e", "n">>, color |-> "Green"],
      [name |-> <<"y", "e", "l", "l", "o", "w">>, color |-> "Yellow"],
      [name |-> <<"b", "l", "u", "e">>, color |-> "Blue"],
      [name |-> <<"m", "a", "g", "e", "n", "t", "a">>, color |-> "Magenta"],
      [name |-> <<"c", "y", "a", "n">>, color |-> "Cyan"],
      [name |-> <<"w", "h", "i", "t", "e">>, color |-> "White"],
      [name |-> <<"b", "r", "i", "g", "h", "t", "-", "b", "l", "a", "c", "k">>, color |-> "BrightBlack"],
      [name |-> <<"b", "r", "i", "g", "h", "t", "-", "r", "e", "d">>, color |-> "BrightRed"],
      [name |-> <<"b", "r", "i", "g", "h", "t", "-", "g", "r", "e", "e", "n">>, color |-> "BrightGreen"],
      [name |-> <<"b", "r", "i", "g", "h", "t", "-", "y", "e", "l", "l", "o", "w">>, color |-> "BrightYellow"],
      [name |-> <<"b", "r", "i", "g", "h", "t", "-", "b", "l", "u", "e">>, color |-> "BrightBlue"],
      [name |-> <<"b", "r", "i", "g", "h", "t", "-", "m", "a", "g", "e", "n", "t", "a">>, color |-> "BrightMagenta"],
      [name |-> <<"b", "r", "i", "g", "h", "t", "-", "c", "y", "a", "n">>, color |-> "BrightCyan"],
      [name |-> <<"b", "r", "i", "g", "h", "t", "-", "w", "h", "i", "t", "e">>, color |-> "BrightWhite"] }

\* the names Decoration::from_str resolves, aliases included
DecorationNames ==
    {
      [name |-> <<"b", "o", "l", "d">>, decoration |-> "Bold"],
      [name |-> <<"d", "i", "m">>, decoration |-> "Dim"],
      [name |-> <<"f", "a", "i", "n", "t">>, decoration |-> "Dim"],
      [name |-> <<"i", "t", "a", "l", "i", "c">>, decoration |-> "Italic"],
      [name |-> <<"u", "n", "d", "e", "r", "l", "i", "n", "e">>, decoration |-> "Underline"],
      [name |-> <<"s", "l", "o", "w", "-", "b", "l", "i", "n", "k">>, decoration |-> "SlowBlink"],
      [name |-> <<"f", "a", "s", "t", "-", "b", "l", "i", "n", "k">>, decoration |-> "FastBlink"],
      [name |-> <<"i", "n", "v", "e", "r", "t">>, decoration |-> "Invert"],
      [name |-> <<"r", "e", "v", "e", "r", "s", "e">>, decoration |-> "Invert"],
      [name |-> <<"h", "i", "d", "e">>, decoration |-> "Hide"],
      [name |-> <<"c", "o", "n", "c", "e", "a", "l">>, decoration |-> "Hide"],
      [name |-> <<"s", "t", "r", "i", "k", "e", "t", "h", "r", "o", "u", "g", "h">>, decoration |-> "StrikeThrough"],
      [name |-> <<"s", "t", "r", "i", "k", "e", "-", "t", "h", "r", "o", "u", "g", "h">>, decoration |-> "StrikeThrough"] }

DecorationWords == {e.name : e \in DecorationNames}

\* the words of a pattern by their first character
ByFirst(words) == [ch \in {w[1] : w \in words} |-> {w \in words : w[1] = ch}]
ColorWordsByFirst == ByFirst(ColorWords)
DecorationWordsByFirst == ByFirst(DecorationWords)

Color_from_str(text) == (CHOOSE e \in ColorNames : e.name = ToLower(text)).color

Decoration_from_str(text) ==
    (CHOOSE e \in DecorationNames : e.name = ToLower(text)).decoration

\* the characters the Text pattern [^\\\[\]():;,]+ excludes
StopCharacters == {"\\", "[", "]", "(", ")", ":", ";", ","}
\* the characters of [ \r\n\t]
WhitespaceCharacters == {" ", "\r", "\n", "\t"}
\* the characters of [\\\[\]()]
EscapableCharacters == {"\\", "[", "]", "(", ")"}

Max(S) == CHOOSE x \in S : \A y \in S : y <= x

\* length of the literal word at position i of src, ignoring ASCII case; 0 when
\* it is not there
TokenLen(src, i, word) ==
    IF /\ i + Len(word) - 1 <= Len(src)
       /\ \A k \in 1..Len(word) : to_ascii_lowercase(src[i + k - 1]) = word[k]
    THEN Len(word) ELSE 0

\* longest of the words at position i, words given by first character; 0 when
\* none is there
WordsLen(src, i, words) ==
    LET ch == to_ascii_lowercase(src[i])
    IN  IF ch \in DOMAIN words
        THEN Max({0} \cup {TokenLen(src, i, w) : w \in words[ch]})
        ELSE 0

RECURSIVE TextLen(_, _)
\* length of the run [^\\\[\]():;,]+ at position i
TextLen(src, i) ==
    IF i <= Len(src) /\ src[i] \notin StopCharacters
    THEN 1 + TextLen(src, i + 1) ELSE 0

RECURSIVE WhitespaceLen(_, _)
\* length of the run [ \r\n\t]* at position i
WhitespaceLen(src, i) ==
    IF i <= Len(src) /\ src[i] \in WhitespaceCharacters
    THEN 1 + WhitespaceLen(src, i + 1) ELSE 0

\* \\[\\\[\]()] at position i
EscapeCharacterLen(src, i) ==
    IF i + 1 <= Len(src) /\ src[i] = "\\" /\ src[i + 1] \in EscapableCharacters
    THEN 2 ELSE 0

\* mutant: the backslash taking one white space character with it
EscapeWhitespaceLen_single(src, i) ==
    IF src[i] = "\\" /\ WhitespaceLen(src, i + 1) > 0 THEN 2 ELSE 0

\* \\[ \r\n\t]+ at position i
EscapeWhitespaceLen(src, i) ==
    IF src[i] = "\\" /\ WhitespaceLen(src, i + 1) > 0
    THEN 1 + WhitespaceLen(src, i + 1) ELSE 0

\* SyntaxKind: every pattern with its priority (the one written, else the
\* default of the derive: 2 per literal byte, 1 per character class) and the
\* length it matches at position i
SyntaxKind_matches(src, i) ==
    { [kind |-> "SquareBracketOpen", priority |-> 2, len |-> TokenLen(src, i, <<"[">>)],
      [kind |-> "SquareBracketClose", priority |-> 2, len |-> TokenLen(src, i, <<"]">>)],
      [kind |-> "ParenthesisOpen", priority |-> 2, len |-> TokenLen(src, i, <<"(">>)],
      [kind |-> "ParenthesisClose", priority |-> 2, len |-> TokenLen(src, i, <<")">>)],
      [kind |-> "Colon", priority |-> 10, len |-> TokenLen(src, i, <<":">>)],
      [kind |-> "Semicolon", priority |-> 10, len |-> TokenLen(src, i, <<";">>)],
      [kind |-> "Comma", priority |-> 10, len |-> TokenLen(src, i, <<",">>)],
      [kind |-> "ForegroundSpecifier", priority |-> 10,
       len |-> TokenLen(src, i, <<"f", "g">>)],
      [kind |-> "BackgroundSpecifier", priority |-> 10,
       len |-> TokenLen(src, i, <<"b", "g">>)],
      [kind |-> "DecorationSpecifier", priority |-> 10,
       len |-> TokenLen(src, i, <<"d", "e", "c", "o">>)],
      [kind |-> "Color", priority |-> 10, len |-> WordsLen(src, i, ColorWordsByFirst)],
      [kind |-> "Color", priority |-> 14, len |-> TokenLen(src, i, <<"d", "e", "f", "a", "u", "l", "t">>)],
      [kind |-> "Decoration", priority |-> 10, len |-> WordsLen(src, i, DecorationWordsByFirst)],
      [kind |-> "EscapeCharacter", priority |-> 3, len |-> EscapeCharacterLen(src, i)],
      [kind |-> "EscapeWhitespace", priority |-> 3, len |-> EscapeWhitespaceLen(src, i)],
      [kind |-> "Text", priority |-> 2, len |-> TextLen(src, i)] }

\* Lexer::next at position i: the longest match wins, the higher priority among
\* matches of one length; the lexeme keeps the slice as written and its byte
\* span.  A character no pattern matches is a lexer error.
Lexer_next(src, i) ==
    With({m \in SyntaxKind_matches(src, i) : m.len > 0}, LAMBDA matches :
        IF matches = {}
        THEN [kind |-> "Error", text |-> <<src[i]>>, span |-> [start |-> i - 1, end |-> i]]
        ELSE With(CHOOSE m \in matches : \A q \in matches :
                      \/ q.len < m.len
                      \/ q.len = m.len /\ q.priority <= m.priority,
                  LAMBDA best :
                      [kind |-> best.kind, text |-> SubSeq(src, i, i + best.len - 1),
                       span |-> [start |-> i - 1, end |-> i - 1 + best.len]]))

RECURSIVE Lexer_collect(_, _)
\* the lexemes the iterator yields from position i to the end of the input
Lexer_collect(src, i) ==
    IF i > Len(src) THEN <<>>
    ELSE With(Lexer_next(src, i), LAMBDA lexeme :
             <<lexeme>> \o Lexer_collect(src, lexeme.span.end + 1))

-----------------------------------------------------------------------------
(* Token list: src/src/ast/token.rs *)

Content(text) == [kind |-> "Content", text |-> text]
Styled(style, content) == [kind |-> "Styled", style |-> style, content |-> content]

Tokens_default == <<>>

Tokens_push(self, token) == Append(self, token)

\* mutant: push_str overwriting the last content instead of appending to it
Tokens_push_str_overwriting(self, s) ==
    IF self # <<>> /\ self[Len(self)].kind = "Content"
    THEN [self EXCEPT ![Len(self)].text = s]
    ELSE Append(self, Content(s))

\* mutant: push_str starting a Content of its own every time
Tokens_push_str_new_token(self, s) == Append(self, Content(s))

\* Tokens::push_str
Tokens_push_str(self, s) ==
    IF self # <<>> /\ self[Len(self)].kind = "Content"
    THEN [self EXCEPT ![Len(self)].text = @ \o s]
    ELSE Append(self, Content(s))

\* mutant: the escape pushed as written, backslash included
Tokens_push_char_escaped(self, ch) ==
    IF self # <<>> /\ self[Len(self)].kind = "Content"
    THEN [self EXCEPT ![Len(self)].text = @ \o <<"\\", ch>>]
    ELSE Append(self, Content(<<"\\", ch>>))

\* Tokens::push_char
Tokens_push_char(self, ch) ==
    IF self # <<>> /\ self[Len(self)].kind = "Content"
    THEN [self EXCEPT ![Len(self)].text = Append(@, ch)]
    ELSE Append(self, Content(<<ch>>))

\* tokens.extend(..) of Parser::parse: the tokens of one pass appended
Tokens_extend(self, tokens) == self \o tokens

-----------------------------------------------------------------------------
(* Parser: src/src/parser.rs, src/src/parser/ *)

\* A Parser is [lexer, errors]: lexer is what the peekable lexer has yet to
\* yield.  An operation that takes &mut Parser and returns a value is an
\* operator to [p, ret].

Parser_new(input) == [lexer |-> Lexer_collect(input, 1), errors |-> <<>>]

peek(p) == IF p.lexer = <<>> THEN None ELSE Some(Head(p.lexer).kind)

peek_lexeme(p) == IF p.lexer = <<>> THEN None ELSE Some(Head(p.lexer))

\* mutant: bump leaving the lexeme in the lexer
bump_in_place(p) == p

\* the parser after bump(); the lexeme bump returns is Head(p.lexer)
bump(p) == [p EXCEPT !.lexer = Tail(@)]

at(p, kind) == peek(p) = Some(kind)

Expected(kinds) == [reason |-> "Expected", kinds |-> kinds]
UnescapedControlCharacter(ch) == [reason |-> "UnescapedControlCharacter", character |-> ch]

\* mutant: the error describing the lexeme after the lookahead
error_after_lookahead(p, reason) ==
    LET span == IF Len(p.lexer) >= 2 THEN Some(p.lexer[2].span) ELSE None
        kind == IF Len(p.lexer) >= 2 THEN p.lexer[2].kind ELSE "Eof"
    IN  [p EXCEPT !.errors = Append(@, [span |-> span, at |-> kind, reason |-> reason])]

\* mutant: the error put in front of those already recorded
error_prepending(p, reason) ==
    LET lexeme == peek_lexeme(p)
        span == IF lexeme.some THEN Some(lexeme.value.span) ELSE None
        kind == IF lexeme.some THEN lexeme.value.kind ELSE "Eof"
    IN  [p EXCEPT !.errors = <<[span |-> span, at |-> kind, reason |-> reason]>> \o @]

\* Parser::error
error(p, reason) ==
    LET lexeme == peek_lexeme(p)
        span == IF lexeme.some THEN Some(lexeme.value.span) ELSE None
        kind == IF lexeme.some THEN lexeme.value.kind ELSE "Eof"
    IN  [p EXCEPT !.errors = Append(@, [span |-> span, at |-> kind, reason |-> reason])]

expect(p, kind) ==
    IF at(p, kind)
    THEN [p |-> bump(p), ret |-> Some(Head(p.lexer))]
    ELSE [p |-> error(p, Expected(<<kind>>)), ret |-> None]

\* style.rs, color_specifier
color_specifier(p, tag) ==
    With(expect(p, tag), LAMBDA t :
        IF ~t.ret.some THEN [p |-> t.p, ret |-> None]
        ELSE With(expect(t.p, "Colon"), LAMBDA colon :
        IF ~colon.ret.some THEN [p |-> colon.p, ret |-> None]
        ELSE With(expect(colon.p, "Color"), LAMBDA token :
        IF ~token.ret.some THEN [p |-> token.p, ret |-> None]
        ELSE [p |-> token.p, ret |-> Some(Color_from_str(token.ret.value.text))])))

RECURSIVE decorations_loop(_, _, _)
\* style.rs, decorations_specifier: the loop, from its head
decorations_loop(p, decorations, first_decoration) ==
    IF ~first_decoration /\ ~at(p, "Comma")
    THEN [p |-> p, ret |-> Some(decorations)]
    ELSE With(expect(IF first_decoration THEN p ELSE bump(p), "Decoration"),
              LAMBDA token :
                 IF ~token.ret.some THEN [p |-> token.p, ret |-> None]
                 ELSE With(IndexSet_insert(decorations,
                                           Decoration_from_str(token.ret.value.text)),
                           LAMBDA inserted : decorations_loop(token.p, inserted, FALSE)))

\* style.rs, decorations_specifier
decorations_specifier(p, tag) ==
    With(expect(p, tag), LAMBDA t :
        IF ~t.ret.some THEN [p |-> t.p, ret |-> None]
        ELSE With(expect(t.p, "Colon"), LAMBDA colon :
        IF ~colon.ret.some THEN [p |-> colon.p, ret |-> None]
        ELSE decorations_loop(colon.p, <<>>, TRUE)))

\* style.foreground = Some(color)
Style_set_foreground(style, color) == [style EXCEPT !.foreground = color]

\* style.background = Some(color)
Style_set_background(style, color) == [style EXCEPT !.background = color]

\* mutant: a later deco specifier adding to the set of an earlier one
Style_set_decoration_merging(style, decorations) ==
    [style EXCEPT !.decoration =
        SomeDecoration(IF @.some THEN IndexSet_extend(@.set, decorations)
                       ELSE decorations)]

\* style.decoration = Some(decorations)
Style_set_decoration(style, decorations) ==
    [style EXCEPT !.decoration = SomeDecoration(decorations)]

\* mutant: a position without a specifier ending the block without an error
style_no_specifier_accepted(q, style) == [p |-> q, ret |-> Some(style)]

\* style.rs, style: the else arm, the lookahead is none of the three tags
style_no_specifier(q, style) ==
    [p |-> error(q, Expected(<<"ForegroundSpecifier", "BackgroundSpecifier",
                               "DecorationSpecifier">>)),
     ret |-> None]

RECURSIVE style_loop(_, _, _)
\* style.rs, style: the loop, from its head
style_loop(p, style, first_specifier) ==
    IF ~first_specifier /\ ~at(p, "Semicolon")
    THEN [p |-> p, ret |-> Some(style)]
    ELSE With(IF first_specifier THEN p ELSE bump(p), LAMBDA q :
             IF at(q, "ForegroundSpecifier")
             THEN With(color_specifier(q, "ForegroundSpecifier"), LAMBDA color :
                      IF ~color.ret.some THEN [p |-> color.p, ret |-> None]
                      ELSE With(Style_set_foreground(style, color.ret.value),
                                LAMBDA set : style_loop(color.p, set, FALSE)))
             ELSE IF at(q, "BackgroundSpecifier")
             THEN With(color_specifier(q, "BackgroundSpecifier"), LAMBDA color :
                      IF ~color.ret.some THEN [p |-> color.p, ret |-> None]
                      ELSE With(Style_set_background(style, color.ret.value),
                                LAMBDA set : style_loop(color.p, set, FALSE)))
             ELSE IF at(q, "DecorationSpecifier")
             THEN With(decorations_specifier(q, "DecorationSpecifier"),
                       LAMBDA decorations :
                      IF ~decorations.ret.some THEN [p |-> decorations.p, ret |-> None]
                      ELSE With(Style_set_decoration(style, decorations.ret.value),
                                LAMBDA set : style_loop(decorations.p, set, FALSE)))
             ELSE style_no_specifier(q, style))

\* style.rs, style: a closing bracket that is missing is recorded and the style
\* returned all the same
parser_style(p) ==
    With(expect(p, "SquareBracketOpen"), LAMBDA open :
        IF ~open.ret.some THEN [p |-> open.p, ret |-> None]
        ELSE With(style_loop(open.p, Style_default, TRUE), LAMBDA loop :
        IF ~loop.ret.some THEN loop
        ELSE [p |-> expect(loop.p, "SquareBracketClose").p, ret |-> loop.ret]))

\* Option<Tokens>::unwrap_or_default
unwrap_or_default(option) == IF option.some THEN option.value ELSE Tokens_default

\* mutant: parse handing back its tokens without its errors
parse_return_without_errors(tokens, errors) == [tokens |-> tokens, errors |-> <<>>]

\* what Parser::parse returns: (tokens.into(), self.errors)
parse_return(tokens, errors) == [tokens |-> tokens, errors |-> errors]

\* mutant: every lexeme text() stopped at reported as an end of input expected
parse_reason_expected(kind) == Expected(<<"Eof">>)

\* the reason Parser::parse records for the lexeme text() stopped at
parse_reason(kind) ==
    CASE kind = "ParenthesisOpen" -> UnescapedControlCharacter("(")
      [] kind = "ParenthesisClose" -> UnescapedControlCharacter(")")
      [] kind = "SquareBracketOpen" -> UnescapedControlCharacter("[")
      [] kind = "SquareBracketClose" -> UnescapedControlCharacter("]")
      [] OTHER -> Expected(<<"Eof">>)

-----------------------------------------------------------------------------
(* Inputs of the parser *)

RECURSIVE Concat(_)
\* the sequences of seqs, one after the other
Concat(seqs) == IF seqs = <<>> THEN <<>> ELSE Head(seqs) \o Concat(Tail(seqs))

RECURSIVE Tuples(_, _)
\* the sequences of n elements of S
Tuples(S, n) ==
    IF n = 0 THEN {<<>>}
    ELSE {Append(t, x) : t \in Tuples(S, n - 1), x \in S}

\* words without a control character: text, and what lexes as punctuation of a
\* style styleCall, a specifier tag, a colour or a decoration
PlainWords ==
    { <<"a">>, <<"R", "e", "d">>, <<"F", "G">>, <<"B", "o", "l", "d">>, <<"b", "r", "i", "g", "h", "t", "-">>,
      <<":">>, <<";">>, <<",">> }

PlainInputs == UNION {{Concat(t) : t \in Tuples(PlainWords, n)} : n \in 0..MaxWords}

SpecifierInputs ==
    { <<"f", "g", ":", "r", "e", "d">>,
      <<"f", "g", ":", "B", "l", "u", "e">>,
      <<"b", "g", ":", "r", "e", "d">>,
      <<"B", "G", ":", "d", "e", "f", "a", "u", "l", "t">>,
      <<"d", "e", "c", "o", ":", "b", "o", "l", "d">>,
      <<"d", "e", "c", "o", ":", "d", "i", "m", ",", "b", "o", "l", "d">> }

RECURSIVE Join2(_, _)
\* the sequences of seqs with sep between them
Join2(seqs, sep) ==
    IF Len(seqs) = 1 THEN Head(seqs)
    ELSE Head(seqs) \o sep \o Join2(Tail(seqs), sep)

\* what stands between the brackets of a style styleCall
StyleBlockInputs ==
    UNION {{Join2(t, <<";">>) : t \in Tuples(SpecifierInputs, n)} : n \in 1..MaxSpecifiers}

BodyInputs ==
    { <<"x">>,
      <<"x", "[", "f", "g", ":", "B", "l", "u", "e", "]", "(", "y", ")", "z">> }

MarkupInputs ==
    { <<"[">> \o specifiers \o <<"]", "(">> \o body \o <<")">> :
        specifiers \in StyleBlockInputs, body \in BodyInputs }

\* escapes, and markup that is not well formed
OtherInputs ==
    { <<"[", "f", "g", ":", "r", "e", "d", "(", "x", ")">>,
      <<"[", "f", "g", ":", "r", "e", "d", "]", "(", "x">>,
      <<"[", "x", "]", "(", "y", ")">>,
      <<"[", "f", "g", ":", "r", "e", "d", ";", "]", "(", "x", ")">>,
      <<"[", "f", "g", ":", "]", "(", "x", ")">>,
      <<"[", "d", "e", "c", "o", ":", "]", "(", "x", ")">>,
      <<"[", "f", "g", ":", "r", "e", "d", "]", "x">>,
      <<"a", ")", "b">>,
      <<"a", "(", "b">>,
      <<"a", "]", "b">>,
      <<"[", "f", "g", ":", "r", "e", "d", "]", "(", "a", "[", "b", "g", ":", "]", "(", "b", ")", "c", ")", "d">>,
      <<"a", "\\", "(", "b", "\\", ")">>,
      <<"a", "\\", " ", "\t", "b">>,
      <<"\\", "[", "x", "\\", "]">>,
      <<"[", "d", "e", "c", "o", ":", "b", "o", "l", "d", ",", "]", "(", "x", ")">>,
      <<"[", "f", "g", ":", "r", "e", "d", "]", "(", ")">>,
      <<"a", "[", "b", "g", ":", "r", "e", "d", "]", "(", "x", ")", "z">>,
      <<"[", "d", "e", "c", "o", ":", "b", "o", "l", "d", ",", "B", "o", "l", "d", "]", "(", "x", ")">>,
      <<"[", "d", "e", "c", "o", ":", "d", "i", "m", ",", "b", "o", "l", "d", ",", "f", "a", "i", "n", "t", ",", "B", "O", "L", "D", "]", "(", "x", ")">>,
      <<"[", "D", "E", "C", "O", ":", "R", "e", "v", "e", "r", "s", "e", ",", "C", "O", "N", "C", "E", "A", "L", ",", "S", "t", "r", "i", "k", "e", "T", "h", "r", "o", "u", "g", "h", ";", "F", "g", ":", "B", "R", "I", "G", "H", "T", "-", "r", "e", "d", "]", "(", "x", ")">>,
      <<"\\", "\\", "\\", "[", "\\", "]", "\\", "(", "\\", ")">>,
      <<"[", "f", "g", ":", "r", "e", "d", "]", "(", "a", "\\", ")", "b", "\\", "(", "c", ")">>,
      <<"a", "\\", "\n", "\r", " ", "b", "\\", " ">>,
      <<"a", ":", "b", "[", "f", "g", ":", "r", "e", "d", "]", "(", "c", "\\", ")", "d", "[", "b", "g", ":", "r", "e", "d", "]", "(", "e", ")", "f", ",", "g", ")", "h">>,
      <<"a", ")", "b", "(", "c", "]", "d">>,
      <<"[", "f", "g", ":", "r", "e", "d", "]", "(", "x", ")", ")", "y">>,
      <<"a", "\\", "b">>,
      <<"a", "\\">>,
      <<"a", ")", "[", "f", "g", ":", "r", "e", "d", "]", "(", "x">>,
      <<"[", "]", "(", "x", ")">>,
      <<"a", "[">>,
      <<"[", "f", "g", ":", "r", "e", "d", "]", "(", "a", "(", "b", ")">>,
      <<"[", "f", "g", ":", "r", "e", "d", "]", "(", "a", "]", "b", ")">>,
      <<"a", "[", "b">>,
      <<"[", "f", "g", ":", " ", "r", "e", "d", "]", "(", "x", ")">>,
      <<"[", " ", "b", "g", " ", ":", "r", "e", "d", " ", "]", "(", "x", ")">> }

SourceInputs == PlainInputs \cup MarkupInputs \cup OtherInputs

-----------------------------------------------------------------------------
(* Renderer as a function of the token list: spec.md 4.3 and 6 *)

RECURSIVE render(_, _, _)
\* the tokens rendered in order under context, appended to output
render(tokens, ctx, output) ==
    IF tokens = <<>> THEN output
    ELSE With(Head(tokens), LAMBDA token :
             IF token.kind = "Content"
             THEN With(output \o token.text, LAMBDA appended :
                      render(Tail(tokens), ctx, appended))
             ELSE With(CurrentStyle_extend(ctx, token.style), LAMBDA ext :
                  With(Style_apply(token.style, ext.self, output), LAMBDA applied :
                  With(render(token.content, ext.current, applied), LAMBDA inner :
                  With(Style_reset(token.style, ext.self, inner), LAMBDA closed :
                      render(Tail(tokens), ext.self, closed))))))

\* colorize: the errors when there are any, else the rendered tokens
colorize(tokens, errs) ==
    IF errs # <<>>
    THEN [state |-> "done", ok |-> FALSE, tokens |-> tokens, errors |-> errs,
          output |-> <<>>]
    ELSE [state |-> "done", ok |-> TRUE, tokens |-> tokens, errors |-> errs,
          output |-> render(tokens, CurrentStyle_default, <<>>)]

-----------------------------------------------------------------------------
(* Parser: the calls of parse, text, markup and content, one step each *)

Frame(fn, pc, tokens, style) == [fn |-> fn, pc |-> pc, tokens |-> tokens, style |-> style]

Top == calls[Len(calls)]
Caller == SubSeq(calls, 1, Len(calls) - 1)

NoBlock == [lexemes |-> <<>>, ret |-> None]
NoResult == [state |-> "none", ok |-> FALSE, tokens |-> <<>>, errors |-> <<>>,
             output |-> <<>>]

\* no parse under way
ParserIdle ==
    /\ source = <<>>
    /\ parser = [lexer |-> <<>>, errors |-> <<>>]
    /\ calls = <<>>
    /\ ret = None
    /\ styleCall = NoBlock
    /\ result = NoResult

\* Parser::new(source), and parse() entered
ParserInit ==
    /\ source \in SourceInputs
    /\ parser = Parser_new(source)
    /\ calls = <<Frame("parse", "loop", Tokens_default, Style_default)>>
    /\ ret = None
    /\ styleCall = NoBlock
    /\ result = [NoResult EXCEPT !.state = "parsing"]

\* parse, head of the loop: text(&mut self) is called
Parse ==
    /\ calls # <<>>
    /\ Top.fn = "parse" /\ Top.pc = "loop"
    /\ calls' = Append(Append(Caller, [Top EXCEPT !.pc = "text"]),
                        Frame("text", "loop", Tokens_default, Style_default))
    /\ ret' = None
    /\ UNCHANGED <<source, parser, styleCall, result>>
    /\ UNCHANGED rvars

\* parse, after text returned: its tokens are kept; a lexeme text stopped at is
\* recorded as an error and skipped, and the loop goes on; at the end of the
\* input parse returns the tokens and the errors
ParseResume ==
    /\ calls # <<>>
    /\ Top.fn = "parse" /\ Top.pc = "text"
    /\ LET tokens == Tokens_extend(Top.tokens, unwrap_or_default(ret))
           lexeme == peek(parser)
       IN  IF lexeme.some
           THEN /\ parser' = bump(error(parser, parse_reason(lexeme.value)))
                /\ calls' = Append(Caller, [Top EXCEPT !.pc = "loop", !.tokens = tokens])
                /\ UNCHANGED result
           ELSE /\ calls' = <<>>
                /\ \E returned \in {parse_return(tokens, parser.errors)} :
                       result' = [result EXCEPT !.state = "parsed",
                                                !.tokens = returned.tokens,
                                                !.errors = returned.errors]
                /\ UNCHANGED parser
    /\ ret' = None
    /\ UNCHANGED <<source, styleCall>>
    /\ UNCHANGED rvars

\* mutant: text() reading an opening parenthesis as literal text
text_breaks_not_at_open(kind) ==
    kind \in {"Eof", "ParenthesisClose", "SquareBracketClose"}

\* text: the arms of the match that break out of the loop
text_breaks(kind) ==
    kind \in {"Eof", "ParenthesisClose", "ParenthesisOpen", "SquareBracketClose"}

\* text, one turn of the loop
Text ==
    /\ calls # <<>>
    /\ Top.fn = "text" /\ Top.pc = "loop"
    /\ LET lexeme == peek_lexeme(parser)
           kind == IF lexeme.some THEN lexeme.value.kind ELSE "Eof"
       IN  CASE text_breaks(kind) ->
                    /\ calls' = Caller
                    /\ ret' = Some(Top.tokens)
                    /\ UNCHANGED parser
             [] kind = "SquareBracketOpen" ->
                    /\ calls' = Append(Append(Caller, [Top EXCEPT !.pc = "markup"]),
                                        Frame("markup", "style", Tokens_default,
                                              Style_default))
                    /\ ret' = None
                    /\ UNCHANGED parser
             [] kind = "EscapeWhitespace" ->
                    /\ parser' = bump(parser)
                    /\ UNCHANGED <<calls, ret>>
             [] kind = "EscapeCharacter" ->
                    /\ parser' = bump(parser)
                    /\ calls' = Append(Caller,
                                   [Top EXCEPT !.tokens =
                                       Tokens_push_char(@, lexeme.value.text[2])])
                    /\ UNCHANGED ret
             [] OTHER ->
                    /\ parser' = bump(parser)
                    /\ calls' = Append(Caller,
                                   [Top EXCEPT !.tokens =
                                       Tokens_push_str(@, lexeme.value.text)])
                    /\ UNCHANGED ret
    /\ UNCHANGED <<source, styleCall, result>>
    /\ UNCHANGED rvars

\* mutant: text() returning what it has collected when markup fails
text_markup_failed_keeping(tokens) == Some(tokens)

\* text: markup(p)? with markup failing, the tokens collected are dropped
text_markup_failed(tokens) == None

\* text, after markup returned: None is passed on, a token is pushed
TextResume ==
    /\ calls # <<>>
    /\ Top.fn = "text" /\ Top.pc = "markup"
    /\ IF ret.some
       THEN /\ calls' = Append(Caller, [Top EXCEPT !.pc = "loop",
                                                    !.tokens = Tokens_push(@, ret.value)])
            /\ ret' = None
       ELSE /\ calls' = Caller
            /\ ret' = text_markup_failed(Top.tokens)
    /\ UNCHANGED <<source, parser, styleCall, result>>
    /\ UNCHANGED rvars

\* markup: style(p)?, then content(p) up to its call of text
Markup ==
    /\ calls # <<>>
    /\ Top.fn = "markup" /\ Top.pc = "style"
    /\ \E styled \in {parser_style(parser)} :
       LET open == expect(styled.p, "ParenthesisOpen")
           consumed == SubSeq(parser.lexer, 1, Len(parser.lexer) - Len(styled.p.lexer))
       IN  /\ styleCall' = [lexemes |-> consumed, ret |-> styled.ret]
           /\ IF ~styled.ret.some
              THEN /\ parser' = styled.p
                   /\ calls' = Caller
                   /\ ret' = None
              ELSE IF ~open.ret.some
              THEN /\ parser' = open.p
                   /\ calls' = Caller
                   /\ ret' = None
              ELSE /\ parser' = open.p
                   /\ calls' = Append(Append(Caller,
                                    [Top EXCEPT !.pc = "content",
                                                !.style = styled.ret.value]),
                                    Frame("text", "loop", Tokens_default, Style_default))
                   /\ ret' = None
    /\ UNCHANGED <<source, result>>
    /\ UNCHANGED rvars

\* mutant: the Styled token built though the closing parenthesis is missing
markup_return_unclosed(closed, style, tokens) == Some(Styled(style, tokens))

\* what markup returns once content has expected the closing parenthesis:
\* p.expect(ParenthesisClose)? in content, content(p)? in markup
markup_return(closed, style, tokens) ==
    IF closed.some THEN Some(Styled(style, tokens)) ELSE None

\* content, after text returned: the closing parenthesis is expected; markup
\* returns the Styled token.  content takes what text returned without `?`:
\* after a failure inside, no tokens, and the parenthesis is expected all the same
ContentResume ==
    /\ calls # <<>>
    /\ Top.fn = "markup" /\ Top.pc = "content"
    /\ LET tokens == unwrap_or_default(ret)
           close == expect(parser, "ParenthesisClose")
       IN  /\ parser' = close.p
           /\ calls' = Caller
           /\ ret' = markup_return(close.ret, Top.style, tokens)
    /\ UNCHANGED <<source, styleCall, result>>
    /\ UNCHANGED rvars

\* colorize, once parse returned
Colorize ==
    /\ result.state = "parsed"
    /\ result' = colorize(result.tokens, result.errors)
    /\ UNCHANGED <<source, parser, calls, ret, styleCall>>
    /\ UNCHANGED rvars

-----------------------------------------------------------------------------
(* Specifications *)

Init == RenderInit /\ ParserIdle

Next ==
    \/ RenderContent
    \/ EnterStyled
    \/ ExitStyled

\* the renderer walking every token tree within the bounds, from the default context
Spec == Init /\ [][Next]_vars

InitParse == RenderInit /\ ParserInit

NextParse ==
    \/ Parse
    \/ ParseResume
    \/ Text
    \/ TextResume
    \/ Markup
    \/ ContentResume
    \/ Colorize

\* colorize on every input of SourceInputs
SpecParse == InitParse /\ [][NextParse]_vars

-----------------------------------------------------------------------------
(* Reading what was written *)

\* units is one SGR sequence: ESC[ code (; code)* m
IsSgrSequence(units) ==
    /\ Len(units) >= 3
    /\ Len(units) % 2 = 1
    /\ units[1] = "ESC["
    /\ units[Len(units)] = "m"
    /\ \A i \in 2..(Len(units) - 1) :
        IF i % 2 = 1 THEN units[i] = ";" ELSE units[i] \notin {";", "m", "ESC["}

\* the codes of one SGR sequence, in order (none when nothing was written)
CodesOf(units) == [i \in 1..((Len(units) - 1) \div 2) |-> units[2 * i]]

\* the decorations of the style that the parent context does not have, in the
\* style's order
NewDecorations(style, parent) ==
    IF style.decoration.some
    THEN SelectSeq(style.decoration.set,
                   LAMBDA d : \A i \in DOMAIN parent.decoration : parent.decoration[i] # d)
    ELSE <<>>

SetsForeground(style, parent) ==
    style.foreground # NoColor /\ style.foreground # parent.foreground
SetsBackground(style, parent) ==
    style.background # NoColor /\ style.background # parent.background

IsPrefix(s, t) == Len(s) <= Len(t) /\ SubSeq(t, 1, Len(s)) = s

\* the contexts along the open path: the top level's first, the current one last
PathContexts ==
    [i \in 1..(Len(rstack) + 1) |->
        IF i <= Len(rstack) THEN rstack[i].parent ELSE context]

-----------------------------------------------------------------------------
(* Claims *)

\* C1: after a Styled span closes (its reset codes are written) the terminal's
\* state equals the state it had just before the span's apply codes.
C1_TerminalRestored ==
    last.op = "reset" => term = last.termAtEntry

\* C3: Style::apply writes either nothing or one ESC[ ... m sequence; it holds a
\* foreground code iff the style sets a foreground that differs from the parent's,
\* a background code under the same rule, and the codes come in the order
\* foreground, background, decorations.
C3_ApplyColours ==
    last.op = "apply" =>
        LET codes == CodesOf(written)
            fgs == SelectSeq(codes, LAMBDA c : c \in ForegroundCodes)
            bgs == SelectSeq(codes, LAMBDA c : c \in BackgroundCodes)
            decos == SelectSeq(codes, LAMBDA c : c \in ApplyCodes)
        IN  /\ written = <<>> \/ IsSgrSequence(written)
            /\ fgs = IF SetsForeground(last.style, last.parent)
                     THEN <<foreground_code(last.style.foreground)>> ELSE <<>>
            /\ bgs = IF SetsBackground(last.style, last.parent)
                     THEN <<background_code(last.style.background)>> ELSE <<>>
            /\ codes = fgs \o bgs \o decos

C3_Witness ==
    /\ last.op = "apply"
    /\ last.style.foreground = "Blue"
    /\ last.style.background = "Red"
    /\ last.style.decoration.some
    /\ written = <<"ESC[", "34", ";", "41", ";", "1", "m">>

\* C4: the decoration codes written on entry are the apply codes, and those
\* written on exit the remove codes, of exactly the decorations of the style's
\* set that the parent context's set does not hold, one code each, in the style
\* set's order; a decoration the parent already has gets no code.
C4_DecorationCodes ==
    LET codes == CodesOf(written)
        new == NewDecorations(last.style, last.parent)
    IN  /\ last.op = "apply" =>
            SelectSeq(codes, LAMBDA c : c \notin ForegroundCodes \cup BackgroundCodes)
                = [i \in DOMAIN new |-> apply_code(new[i])]
        /\ last.op = "reset" =>
            SelectSeq(codes, LAMBDA c : c \notin ForegroundCodes \cup BackgroundCodes)
                = [i \in DOMAIN new |-> remove_code(new[i])]

\* italic inside bold: the span names bold and italic, the parent has bold, and
\* only italic is removed on exit
C4_Witness ==
    /\ last.op = "reset"
    /\ last.parent.decoration = <<"Bold">>
    /\ last.style.decoration = SomeDecoration(<<"Bold", "Italic">>)
    /\ written = <<"ESC[", "23", "m">>

\* C5: a Styled node whose style changes nothing relative to its parent context
\* writes nothing on entry and nothing on exit, and no operation ever writes an
\* SGR sequence without codes.
ChangesNothing(style, parent) ==
    /\ style.foreground \in {NoColor, parent.foreground}
    /\ style.background \in {NoColor, parent.background}
    /\ style.decoration.some =>
        \A i \in DOMAIN style.decoration.set :
            \E j \in DOMAIN parent.decoration :
                parent.decoration[j] = style.decoration.set[i]

C5_NothingWritten ==
    /\ (last.op \in {"apply", "reset"} /\ ChangesNothing(last.style, last.parent))
            => written = <<>>
    /\ \A i \in DOMAIN written :
            written[i] = "ESC[" => (i < Len(written) /\ written[i + 1] # "m")

C5_Witness ==
    /\ last.op = "reset"
    /\ ~Style_is_empty(last.style)
    /\ last.style.foreground = "Red"
    /\ ChangesNothing(last.style, last.parent)
    /\ written = <<>>

\* C6: Style::reset writes a code for the same properties, in the same order and
\* number, as Style::apply writes for the same style and parent; for a colour
\* the code is the parent context's colour code, never the span's own.
C6_ResetMirrorsApply ==
    last.op = "reset" =>
        LET applied == CodesOf(Style_apply(last.style, last.parent, <<>>))
            codes == CodesOf(written)
        IN  /\ written = <<>> \/ IsSgrSequence(written)
            /\ Len(codes) = Len(applied)
            /\ \A i \in DOMAIN codes :
                \/ /\ applied[i] \in ForegroundCodes
                   /\ codes[i] = foreground_code(last.parent.foreground)
                   /\ codes[i] # foreground_code(last.style.foreground)
                \/ /\ applied[i] \in BackgroundCodes
                   /\ codes[i] = background_code(last.parent.background)
                   /\ codes[i] # background_code(last.style.background)
                \/ \E d \in Decoration :
                        applied[i] = apply_code(d) /\ codes[i] = remove_code(d)

\* a parent with a colour of its own, and a parent with the default colour
C6_Witness ==
    /\ last.op = "reset"
    /\ last.parent.foreground = "Red"
    /\ last.parent.background = "Default"
    /\ last.style.foreground = "Blue"
    /\ last.style.background = "Red"
    /\ written = <<"ESC[", "31", ";", "49", "m">>

\* C7: CurrentStyle::extend yields the parent's decoration set, order kept,
\* followed by the style's decorations not already present; so along the open
\* path every context's set is a prefix of the sets below it: nothing is lost.
C7_DecorationsOnlyAdded ==
    /\ last.op = "apply" =>
        context.decoration
            = last.before.decoration \o NewDecorations(last.style, last.before)
    /\ \A i, j \in DOMAIN PathContexts :
        i <= j => IsPrefix(PathContexts[i].decoration, PathContexts[j].decoration)

C7_Witness ==
    /\ Len(rstack) = 2
    /\ last.op = "apply"
    /\ last.before.decoration = <<"Bold">>
    /\ last.style.decoration = SomeDecoration(<<"Italic", "Bold">>)
    /\ context.decoration = <<"Bold", "Italic">>

RECURSIVE NearestForeground(_)
\* the foreground set by the innermost open span that sets one
NearestForeground(frames) ==
    IF frames = <<>> THEN "Default"
    ELSE LET top == frames[Len(frames)] IN
         IF top.style.foreground # NoColor THEN top.style.foreground
         ELSE NearestForeground(SubSeq(frames, 1, Len(frames) - 1))

RECURSIVE NearestBackground(_)
NearestBackground(frames) ==
    IF frames = <<>> THEN "Default"
    ELSE LET top == frames[Len(frames)] IN
         IF top.style.background # NoColor THEN top.style.background
         ELSE NearestBackground(SubSeq(frames, 1, Len(frames) - 1))

\* C8: CurrentStyle::extend takes each colour from the style when the style sets
\* it and from the parent context otherwise; so at any depth the resolved colour
\* is the one set by the nearest enclosing span that sets it, else Default.
C8_NearestColourWins ==
    /\ last.op = "apply" =>
        /\ context.foreground = IF last.style.foreground # NoColor
                                THEN last.style.foreground ELSE last.before.foreground
        /\ context.background = IF last.style.background # NoColor
                                THEN last.style.background ELSE last.before.background
    /\ context.foreground = NearestForeground(rstack)
    /\ context.background = NearestBackground(rstack)

\* the inner span sets no foreground and inherits the outer one's; it sets a
\* background over the outer one's
C8_Witness ==
    /\ Len(rstack) = 2
    /\ rstack[1].style.foreground = "Blue"
    /\ rstack[1].style.background = "Red"
    /\ rstack[2].style.foreground = NoColor
    /\ rstack[2].style.background = "Default"
    /\ context.foreground = "Blue"
    /\ context.background = "Default"

\* C9: once a Styled node is rendered the walker's context is the one it had
\* before the node, so a later sibling gets the codes it would get had the node
\* never been rendered (the siblings tried: each style of one property).
C9_SiblingIndependence ==
    last.op = "reset" =>
        /\ context = last.before
        /\ \A y \in StyleInputsOfWeight[1] :
            /\ Style_apply(y, context, <<>>) = Style_apply(y, last.before, <<>>)
            /\ Style_reset(y, context, <<>>) = Style_reset(y, last.before, <<>>)

\* a nested sibling that changed colours and decorations has been closed
C9_Witness ==
    /\ last.op = "reset"
    /\ Len(rstack) = 1
    /\ last.style.foreground = "Blue"
    /\ last.style.decoration = SomeDecoration(<<"Dim">>)
    /\ last.before.foreground = "Red"
    /\ context.foreground = "Red"

-----------------------------------------------------------------------------
(* Parser claims *)

\* the characters of markup and escapes
ControlCharacters == {"[", "]", "(", ")", "\\"}

NoControlCharacter(text) == \A i \in DOMAIN text : text[i] \notin ControlCharacters

\* C2: for an input holding none of [ ] ( ) \ parsing records no error and the
\* output of colorize is the input, character for character; the inputs include
\* : ; , and words that lex as a specifier tag, a colour or a decoration, in
\* upper, lower and mixed case
C2_PassThrough ==
    NoControlCharacter(source) =>
        /\ parser.errors = <<>>
        /\ result.state = "done" =>
              /\ result.ok
              /\ result.errors = <<>>
              /\ result.output = source

\* "Red:FG" is colorized: a colour, a colon and a tag to the lexer
C2_Witness ==
    /\ result.state = "done"
    /\ source = <<"R", "e", "d", ":", "F", "G">>
    /\ result.tokens = <<Content(source)>>
    /\ result.output = source

\* the last lexeme of a kind among lexemes; 0 when there is none
LastIndex(lexemes, kind) ==
    Max({0} \cup {i \in DOMAIN lexemes : lexemes[i].kind = kind})

RECURSIVE DecorationsFrom(_, _)
\* the comma-separated decorations that start at lexeme i
DecorationsFrom(lexemes, i) ==
    IF i <= Len(lexemes) /\ lexemes[i].kind = "Decoration"
    THEN <<Decoration_from_str(lexemes[i].text)>> \o
         (IF i + 1 <= Len(lexemes) /\ lexemes[i + 1].kind = "Comma"
          THEN DecorationsFrom(lexemes, i + 2) ELSE <<>>)
    ELSE <<>>

\* C10: the Style a style block yields has, for foreground, background and
\* decoration, the value of the last specifier with that tag among the lexemes
\* of the block and nothing of an earlier one (a later deco: replaces the whole
\* set); a field whose tag is not in the block is unset
C10_LastSpecifierWins ==
    styleCall.ret.some =>
        LET lexemes == styleCall.lexemes
            style == styleCall.ret.value
            fg == LastIndex(lexemes, "ForegroundSpecifier")
            bg == LastIndex(lexemes, "BackgroundSpecifier")
            deco == LastIndex(lexemes, "DecorationSpecifier")
        IN  /\ style.foreground =
                   IF fg = 0 THEN NoColor ELSE Color_from_str(lexemes[fg + 2].text)
            /\ style.background =
                   IF bg = 0 THEN NoColor ELSE Color_from_str(lexemes[bg + 2].text)
            /\ style.decoration =
                   IF deco = 0 THEN NoDecoration
                   ELSE SomeDecoration(
                            IndexSet_extend(<<>>, DecorationsFrom(lexemes, deco + 2)))

\* [deco:dim,bold;fg:red;deco:bold] yields bold alone, red, and no background
C10_Witness ==
    /\ styleCall.ret = Some([foreground |-> "Red", background |-> NoColor,
                             decoration |-> SomeDecoration(<<"Bold">>)])
    /\ Cardinality({i \in DOMAIN styleCall.lexemes :
                       styleCall.lexemes[i].kind = "DecorationSpecifier"}) = 2
    /\ DecorationsFrom(styleCall.lexemes, 4) = <<"Dim", "Bold">>

\* the first place of d in items
FirstIndex(items, d) == CHOOSE i \in DOMAIN items : items[i] = d /\ \A j \in 1..(i - 1) : items[j] # d

\* C11: the set a deco: specifier yields holds each decoration it names, once,
\* in the order in which they are first named; a name or an alias that repeats
\* a decoration named before it adds nothing and moves nothing
C11_DecorationsOnce ==
    (styleCall.ret.some /\ styleCall.ret.value.decoration.some) =>
        LET lexemes == styleCall.lexemes
            deco == LastIndex(lexemes, "DecorationSpecifier")
            named == DecorationsFrom(lexemes, deco + 2)
            set == styleCall.ret.value.decoration.set
        IN  /\ \A i, j \in DOMAIN set : set[i] = set[j] => i = j
            /\ Range(set) = Range(named)
            /\ \A i, j \in DOMAIN set :
                   i < j => FirstIndex(named, set[i]) < FirstIndex(named, set[j])

\* [deco:dim,bold,faint,BOLD] yields dim and bold, in that order
C11_Witness ==
    /\ styleCall.ret.some
    /\ styleCall.ret.value.decoration = SomeDecoration(<<"Dim", "Bold">>)
    /\ DecorationsFrom(styleCall.lexemes, 4) = <<"Dim", "Bold", "Dim", "Bold">>
    /\ styleCall.lexemes[8].text = <<"f", "a", "i", "n", "t">>

\* text with every ASCII capital replaced by its small letter
LowerCased(text) ==
    [i \in DOMAIN text |-> IF text[i] \in DOMAIN LowerCase THEN LowerCase[text[i]] ELSE text[i]]

\* the aliases of spec 3
Aliases ==
    { [name |-> <<"f", "a", "i", "n", "t">>, decoration |-> "Dim"],
      [name |-> <<"r", "e", "v", "e", "r", "s", "e">>, decoration |-> "Invert"],
      [name |-> <<"c", "o", "n", "c", "e", "a", "l">>, decoration |-> "Hide"],
      [name |-> <<"s", "t", "r", "i", "k", "e", "t", "h", "r", "o", "u", "g", "h">>,
       decoration |-> "StrikeThrough"] }

\* C12: an input and its lower-case spelling lex into the same kinds over the
\* same spans (a tag, a colour or a decoration in any letter case is that tag,
\* colour or decoration), a colour or decoration lexeme resolves to the value
\* of its lower-case spelling, and faint, reverse, conceal and strikethrough
\* resolve to Dim, Invert, Hide and StrikeThrough
C12_CaseInsensitive ==
    /\ result.state = "parsed" =>
           LET lexemes == Lexer_collect(source, 1)
               lower == Lexer_collect(LowerCased(source), 1)
           IN  /\ Len(lexemes) = Len(lower)
               /\ \A i \in DOMAIN lexemes :
                      /\ lexemes[i].kind = lower[i].kind
                      /\ lexemes[i].span = lower[i].span
                      /\ lexemes[i].kind = "Color" =>
                             Color_from_str(lexemes[i].text) = Color_from_str(lower[i].text)
                      /\ lexemes[i].kind = "Decoration" =>
                             Decoration_from_str(lexemes[i].text) =
                                 Decoration_from_str(lower[i].text)
    /\ styleCall.ret.some =>
           \A i \in DOMAIN styleCall.lexemes :
               \A e \in Aliases :
                   (/\ i > LastIndex(styleCall.lexemes, "DecorationSpecifier")
                    /\ LowerCased(styleCall.lexemes[i].text) = e.name) =>
                       /\ styleCall.lexemes[i].kind = "Decoration"
                       /\ e.decoration \in Range(styleCall.ret.value.decoration.set)

\* [DECO:Reverse,CONCEAL,StrikeThrough;Fg:BRIGHT-red] was parsed
C12_Witness ==
    /\ result.state = "parsed"
    /\ source # LowerCased(source)
    /\ styleCall.ret = Some([foreground |-> "BrightRed", background |-> NoColor,
                             decoration |->
                                 SomeDecoration(<<"Invert", "Hide", "StrikeThrough">>)])
    /\ styleCall.lexemes[2].text = <<"D", "E", "C", "O">>

RECURSIVE Flatten(_)
\* the literal content of a token list, nested content in place
Flatten(tokens) ==
    IF tokens = <<>> THEN <<>>
    ELSE (IF Head(tokens).kind = "Content" THEN Head(tokens).text
          ELSE Flatten(Head(tokens).content)) \o Flatten(Tail(tokens))

\* the place of the first ] of src after place i, Len(src) + 1 when there is none
NextClose(src, i) ==
    CHOOSE j \in (i + 1)..(Len(src) + 1) :
        /\ j <= Len(src) => src[j] = "]"
        /\ \A k \in (i + 1)..(j - 1) : src[k] # "]"

RECURSIVE Literal(_, _)
\* src from place i as it reads once the markup is taken away: an escape stands
\* for its second character, a backslash with the white space after it for
\* nothing, a style block and the parentheses of a span for nothing
Literal(src, i) ==
    IF i > Len(src) THEN <<>>
    ELSE IF src[i] = "\\" /\ i < Len(src) /\ src[i + 1] \in {"\\", "[", "]", "(", ")"}
    THEN <<src[i + 1]>> \o Literal(src, i + 2)
    ELSE IF src[i] = "\\" /\ i < Len(src) /\ src[i + 1] \in {" ", "\t", "\r", "\n"}
    THEN Literal(src, CHOOSE j \in (i + 2)..(Len(src) + 1) :
                         /\ j <= Len(src) => src[j] \notin {" ", "\t", "\r", "\n"}
                         /\ \A k \in (i + 1)..(j - 1) : src[k] \in {" ", "\t", "\r", "\n"})
    ELSE IF src[i] = "[" THEN Literal(src, NextClose(src, i) + 1)
    ELSE IF src[i] \in {"]", "(", ")"} THEN Literal(src, i + 1)
    ELSE <<src[i]>> \o Literal(src, i + 1)

RECURSIVE Bare(_, _)
\* the brackets and parentheses of src from place i that no backslash escapes
Bare(src, i) ==
    IF i > Len(src) THEN <<>>
    ELSE IF src[i] = "\\" THEN Bare(src, i + 2)
    ELSE IF src[i] \in {"[", "]", "(", ")"} THEN <<src[i]>> \o Bare(src, i + 1)
    ELSE Bare(src, i + 1)

RECURSIVE WellEscaped(_, _)
\* every backslash of src from place i starts an escape of the language
WellEscaped(src, i) ==
    IF i > Len(src) THEN TRUE
    ELSE IF src[i] = "\\"
    THEN /\ i < Len(src)
         /\ src[i + 1] \in {"\\", "[", "]", "(", ")", " ", "\t", "\r", "\n"}
         /\ WellEscaped(src, i + 2)
    ELSE WellEscaped(src, i + 1)

\* C13: an escape of \ [ ] ( ) stands in the content for its second character
\* alone, wherever text is read: the literal content of the tokens of a parse
\* without error is the input with the markup taken away and each escape
\* replaced by its second character; and an input whose brackets and parentheses
\* are all escaped parses without error into literal content alone (no escape
\* opens or closes a style block or a span)
C13_EscapedCharacter ==
    result.state = "parsed" =>
        /\ result.errors = <<>> => Flatten(result.tokens) = Literal(source, 1)
        /\ (WellEscaped(source, 1) /\ Bare(source, 1) = <<>>) =>
               /\ result.errors = <<>>
               /\ \A i \in DOMAIN result.tokens : result.tokens[i].kind = "Content"

\* [fg:red](a\)b\(c) was parsed: the span holds a)b(c
C13_Witness ==
    /\ result.state = "parsed"
    /\ result.errors = <<>>
    /\ result.tokens =
           <<Styled([foreground |-> "Red", background |-> NoColor,
                     decoration |-> NoDecoration],
                    <<Content(<<"a", ")", "b", "(", "c">>)>>)>>
    /\ Len(source) = 17

\* C14: when text() meets a backslash followed by white space, the lexeme it
\* meets is the backslash with the whole run of space, tab, CR and LF after it
\* (what follows in the input is not white space and starts the next lexeme),
\* and the step consumes that one lexeme and leaves the token list as it was:
\* nothing is added, and the trailing Content stays the one later text is
\* appended to; an input of text and such escapes alone ends as one Content
C14_EscapedWhitespace ==
    [][ /\ (calls # <<>> /\ Top.fn = "text" /\ Top.pc = "loop"
            /\ at(parser, "EscapeWhitespace")) =>
               LET lexeme == Head(parser.lexer)
                   first == lexeme.span.start + 1
                   end == lexeme.span.end
               IN  /\ source[first] = "\\"
                   /\ end > first
                   /\ \A k \in (first + 1)..end : source[k] \in {" ", "\t", "\r", "\n"}
                   /\ end < Len(source) => source[end + 1] \notin {" ", "\t", "\r", "\n"}
                   /\ parser'.lexer = Tail(parser.lexer)
                   /\ parser'.lexer # <<>> => Head(parser'.lexer).span.start = end
                   /\ parser'.errors = parser.errors
                   /\ calls' = calls
        /\ (result'.state = "parsed" /\ WellEscaped(source, 1) /\ Bare(source, 1) = <<>>) =>
               result'.tokens \in {<<>>, <<Content(Literal(source, 1))>>}
      ]_vars

\* a\ <tab>b was parsed into the one Content ab
C14_Witness ==
    /\ result.state = "parsed"
    /\ source = <<"a", "\\", " ", "\t", "b">>
    /\ result.tokens = <<Content(<<"a", "b">>)>>
    /\ result.errors = <<>>

RECURSIVE Coalesced(_)
\* no two neighbours of tokens are both Content, nor inside any Styled of it
Coalesced(tokens) ==
    /\ \A i \in 1..(Len(tokens) - 1) :
           ~(tokens[i].kind = "Content" /\ tokens[i + 1].kind = "Content")
    /\ \A i \in DOMAIN tokens :
           tokens[i].kind = "Styled" => Coalesced(tokens[i].content)

\* C15: the token list of every call of text() under way, and the list a call
\* of text() returns, has no two neighbouring Content tokens at any depth; and
\* a step of text() that pushes literal text lengthens the trailing Content
\* when there is one, and appends a new Content only when the list is empty or
\* ends with a Styled token
C15_ContentCoalescing ==
    [][ /\ \A i \in DOMAIN calls' : calls'[i].fn = "text" => Coalesced(calls'[i].tokens)
        /\ (calls' # <<>> /\ ret'.some /\ Top'.fn \in {"parse", "markup"}) =>
               Coalesced(ret'.value)
        /\ (/\ calls # <<>> /\ Top.fn = "text" /\ Top.pc = "loop"
            /\ peek(parser).some
            /\ peek(parser).value \notin {"ParenthesisClose", "ParenthesisOpen",
                                           "SquareBracketClose", "SquareBracketOpen",
                                           "EscapeWhitespace"}) =>
               LET before == Top.tokens
                   after == Top'.tokens
                   n == Len(before)
               IN  IF n > 0 /\ before[n].kind = "Content"
                   THEN /\ Len(after) = n
                        /\ SubSeq(after, 1, n - 1) = SubSeq(before, 1, n - 1)
                        /\ after[n].kind = "Content"
                        /\ IsPrefix(before[n].text, after[n].text)
                        /\ Len(after[n].text) > Len(before[n].text)
                   ELSE /\ Len(after) = n + 1
                        /\ SubSeq(after, 1, n) = before
                        /\ after[n + 1].kind = "Content"
      ]_vars

\* a:b[fg:red](c\)d[bg:red](e)f,g)h was parsed: three lexemes make the one
\* Content a:b, and inside the span Content, Styled, Content
C15_Witness ==
    /\ result.state = "parsed"
    /\ result.errors = <<>>
    /\ Len(result.tokens) = 3
    /\ result.tokens[1] = Content(<<"a", ":", "b">>)
    /\ result.tokens[2].kind = "Styled"
    /\ Len(result.tokens[2].content) = 3
    /\ result.tokens[2].content[1] = Content(<<"c", ")", "d">>)
    /\ result.tokens[2].content[3] = Content(<<"f", ",", "g">>)
    /\ result.tokens[3] = Content(<<"h">>)

RECURSIVE BarePlaces(_, _)
\* the places of the brackets and parentheses of src from place i that no
\* backslash escapes
BarePlaces(src, i) ==
    IF i > Len(src) THEN <<>>
    ELSE IF src[i] = "\\" THEN BarePlaces(src, i + 2)
    ELSE IF src[i] \in {"[", "]", "(", ")"} THEN <<i>> \o BarePlaces(src, i + 1)
    ELSE BarePlaces(src, i + 1)

\* the kind of a bracket or parenthesis
KindOfCharacter(ch) ==
    CASE ch = "(" -> "ParenthesisOpen"
      [] ch = ")" -> "ParenthesisClose"
      [] ch = "[" -> "SquareBracketOpen"
      [] ch = "]" -> "SquareBracketClose"

\* the error of an unescaped ch at place i of the input
UnescapedAt(ch, i) ==
    [span |-> Some([start |-> i - 1, end |-> i]), at |-> KindOfCharacter(ch),
     reason |-> UnescapedControlCharacter(ch)]

\* C16: when text() called by parse stops at an unescaped ( ) or ], parse adds
\* exactly one error, UnescapedControlCharacter of that character with the span
\* of that one character, keeps the tokens read so far, skips the character
\* and goes round its loop again; an input with no unescaped [ ends with one
\* such error per unescaped ( ) ] in input order and with all its literal text
\* in the tokens
C16_UnescapedControlCharacter ==
    [][ /\ (/\ calls # <<>> /\ Top.fn = "parse" /\ Top.pc = "text"
            /\ peek(parser).some
            /\ peek(parser).value \in {"ParenthesisOpen", "ParenthesisClose",
                                        "SquareBracketClose"}) =>
               LET lexeme == Head(parser.lexer)
                   place == lexeme.span.start + 1
               IN  /\ source[place] \in {"(", ")", "]"}
                   /\ lexeme.span.end = place
                   /\ parser'.errors =
                          Append(parser.errors, UnescapedAt(source[place], place))
                   /\ parser'.lexer = Tail(parser.lexer)
                   /\ calls' # <<>> /\ Top'.fn = "parse" /\ Top'.pc = "loop"
                   /\ IsPrefix(Top.tokens, Top'.tokens)
                   /\ ret.some => Top'.tokens = Top.tokens \o ret.value
        /\ (/\ result'.state = "parsed"
            /\ WellEscaped(source, 1)
            /\ "[" \notin Range(Bare(source, 1))) =>
               LET places == BarePlaces(source, 1)
               IN  /\ result'.errors =
                          [k \in DOMAIN places |-> UnescapedAt(source[places[k]], places[k])]
                   /\ Flatten(result'.tokens) = Literal(source, 1)
      ]_vars

\* a)b(c]d was parsed: three errors, and a, b, c and d in the tokens
C16_Witness ==
    /\ result.state = "parsed"
    /\ source = <<"a", ")", "b", "(", "c", "]", "d">>
    /\ Len(result.errors) = 3
    /\ result.errors[2] = UnescapedAt("(", 4)
    /\ Flatten(result.tokens) = <<"a", "b", "c", "d">>

RECURSIVE LoneBackslashes(_, _)
\* the places of the backslashes of src from place i that start no escape
LoneBackslashes(src, i) ==
    IF i > Len(src) THEN <<>>
    ELSE IF src[i] # "\\" THEN LoneBackslashes(src, i + 1)
    ELSE IF i < Len(src) /\ src[i + 1] \in {"\\", "[", "]", "(", ")", " ", "\t", "\r", "\n"}
    THEN LoneBackslashes(src, i + 2)
    ELSE <<i>> \o LoneBackslashes(src, i + 1)

RECURSIVE EscapedBackslashes(_, _)
\* how many escapes \\ src holds from place i
EscapedBackslashes(src, i) ==
    IF i > Len(src) THEN 0
    ELSE IF src[i] # "\\" THEN EscapedBackslashes(src, i + 1)
    ELSE IF i < Len(src) /\ src[i + 1] = "\\" THEN 1 + EscapedBackslashes(src, i + 2)
    ELSE IF i < Len(src) /\ src[i + 1] \in {"[", "]", "(", ")", " ", "\t", "\r", "\n"}
    THEN EscapedBackslashes(src, i + 2)
    ELSE EscapedBackslashes(src, i + 1)

\* C17: for every backslash of the input that starts no escape (the last
\* character of the input included) the lexer yields a failure at its place,
\* the errors of the parse hold an UnknownEscapeSequence whose span starts at
\* that place, and the literal content of the tokens holds no backslash but
\* those of the escapes \\
C17_UnknownEscapeSequence ==
    result.state = "parsed" =>
        \A k \in DOMAIN LoneBackslashes(source, 1) :
            LET place == LoneBackslashes(source, 1)[k]
                lexemes == Lexer_collect(source, 1)
            IN  /\ \E i \in DOMAIN lexemes :
                       /\ lexemes[i].kind = "Error"
                       /\ lexemes[i].span.start = place - 1
                /\ \E i \in DOMAIN result.errors :
                       /\ result.errors[i].reason.reason = "UnknownEscapeSequence"
                       /\ result.errors[i].span.some
                       /\ result.errors[i].span.value.start = place - 1
                /\ Len(SelectSeq(Flatten(result.tokens), LAMBDA ch : ch = "\\")) <=
                       EscapedBackslashes(source, 1)

\* what is left to do before the next lexeme is consumed: the calls that can
\* still return or be made without consuming one
Rank ==
    IF calls = <<>> THEN (IF result.state = "parsed" THEN 1 ELSE 0)
    ELSE IF Top.fn = "markup" /\ Top.pc = "style" THEN 0
    ELSE IF Top.fn = "parse" /\ Top.pc = "loop" THEN 3 * Len(calls) + 5
    ELSE IF Top.fn = "text" /\ Top.pc = "markup" THEN 3 * Len(calls) + 2
    ELSE IF Top.fn = "text" /\ Top.pc = "loop" THEN 3 * Len(calls) + 1
    ELSE 3 * Len(calls)

\* C18: every step of a parse either consumes a lexeme or brings the parse
\* nearer to its next consumption or its end (the pair of the lexemes left and
\* Rank decreases in lexicographic order, so no run of parse is infinite); a
\* turn of the loop of parse that records an error consumes a lexeme; a turn
\* of the loop of text() consumes a lexeme, returns or calls markup, and
\* markup consumes at least the bracket; and parse returns exactly when text()
\* has returned with the lexer exhausted
C18_ParseTerminates ==
    [][ /\ \/ Len(parser'.lexer) < Len(parser.lexer)
           \/ Len(parser'.lexer) = Len(parser.lexer) /\ Rank' < Rank
        /\ (calls # <<>> /\ Top.fn = "parse" /\ parser'.errors # parser.errors) =>
               Len(parser'.lexer) < Len(parser.lexer)
        /\ (calls # <<>> /\ Top.fn = "text" /\ Top.pc = "loop") =>
               \/ Len(parser'.lexer) < Len(parser.lexer)
               \/ calls' = Caller
               \/ Len(calls') = Len(calls) + 1 /\ Top'.fn = "markup"
        /\ (calls # <<>> /\ Top.fn = "markup" /\ Top.pc = "style") =>
               /\ Len(parser'.lexer) < Len(parser.lexer)
               /\ Len(styleCall'.lexemes) >= 1
        /\ (calls # <<>> /\ Top.fn = "parse" /\ Top.pc = "text") =>
               (result'.state = "parsed" <=> parser.lexer = <<>>)
      ]_vars

\* [fg:red](a[bg:](b)c)d was parsed to its end, with errors on the way
C18_Witness ==
    /\ result.state = "parsed"
    /\ source = <<"[", "f", "g", ":", "r", "e", "d", "]", "(", "a", "[", "b", "g", ":", "]", "(", "b", ")", "c", ")", "d">>
    /\ Len(result.errors) >= 2
    /\ calls = <<>>
    /\ parser.lexer = <<>>

\* C19: colorize gives output exactly when the parser recorded no error; when
\* it recorded any, colorize gives every error the parser recorded, in the
\* order recorded, and no output, whatever tokens parse handed back
C19_ErrorsOrOutput ==
    result.state = "done" =>
        /\ result.ok <=> parser.errors = <<>>
        /\ result.ok =>
               /\ result.errors = <<>>
               /\ result.output = render(result.tokens, CurrentStyle_default, <<>>)
        /\ ~result.ok =>
               /\ result.errors = parser.errors
               /\ result.output = <<>>

\* a)b(c]d was colorized: three errors, no output, and parse had handed back
\* tokens
C19_Witness ==
    /\ result.state = "done"
    /\ ~result.ok
    /\ Len(result.errors) = 3
    /\ result.errors[3] = UnescapedAt("]", 6)
    /\ result.tokens # <<>>
    /\ result.output = <<>>

\* the kinds of lexeme
SyntaxKinds ==
    {"SquareBracketOpen", "SquareBracketClose", "ParenthesisOpen", "ParenthesisClose",
     "Colon", "Semicolon", "Comma", "ForegroundSpecifier", "BackgroundSpecifier",
     "DecorationSpecifier", "Color", "Decoration", "EscapeCharacter",
     "EscapeWhitespace", "Text"}

\* the ParseError that describes the lookahead of p, for a reason
Describing(p, reason) ==
    IF p.lexer = <<>>
    THEN [span |-> None, at |-> "Eof", reason |-> reason]
    ELSE [span |-> Some(Head(p.lexer).span), at |-> Head(p.lexer).kind, reason |-> reason]

\* C20: every error recorded has, when its span is there, the kind and the
\* exact byte range of the lexeme of the input that starts at that place, and
\* has no span only if it was recorded with the lexer exhausted, with at = Eof
\* (and at = Eof only then); and from any state of the parser, error() and a
\* failing expect() append the one error that describes the lookahead, Eof
\* and no span at the end of the input, and leave the lexer as it is
C20_ErrorDescribesLookahead ==
    /\ \A i \in DOMAIN parser.errors :
           LET e == parser.errors[i]
           IN  /\ e.span.some =>
                      LET lexeme == Lexer_next(source, e.span.value.start + 1)
                      IN  /\ e.span.value.start < Len(source)
                          /\ lexeme.span = e.span.value
                          /\ lexeme.kind = e.at
               /\ ~e.span.some => parser.lexer = <<>>
               /\ ~e.span.some <=> e.at = "Eof"
    /\ \A kind \in SyntaxKinds :
           /\ error(parser, Expected(<<kind>>)) =
                  [parser EXCEPT !.errors = Append(@, Describing(parser, Expected(<<kind>>)))]
           /\ LET expected == expect(parser, kind)
              IN  IF parser.lexer # <<>> /\ Head(parser.lexer).kind = kind
                  THEN expected.ret.some /\ expected.p.errors = parser.errors
                  ELSE /\ ~expected.ret.some
                       /\ expected.p.lexer = parser.lexer
                       /\ expected.p.errors =
                              Append(parser.errors, Describing(parser, Expected(<<kind>>)))

\* a)[fg:red](x was parsed: an error with the span of the ) and one at the end
\* of the input, without span
C20_Witness ==
    /\ result.state = "parsed"
    /\ parser.errors =
           <<UnescapedAt(")", 2),
             [span |-> None, at |-> "Eof", reason |-> Expected(<<"ParenthesisClose">>)]>>
    /\ parser.lexer = <<>>

\* the three tags of a specifier
SpecifierTags == {"ForegroundSpecifier", "BackgroundSpecifier", "DecorationSpecifier"}

\* C21: when style() has consumed up to a [ or a ; and the lookahead is not
\* fg, bg or deco (a ] after [ or after ;, any other lexeme, the end of the
\* input), the call records the one error Expected({fg, bg, deco}) at that
\* lookahead and returns no Style, and markup returns no Styled token
C21_SpecifierRequired ==
    [][ (calls # <<>> /\ Top.fn = "markup" /\ Top.pc = "style") =>
            LET consumed == styleCall'.lexemes
                last_kind == consumed[Len(consumed)].kind
            IN  /\ consumed # <<>>
                /\ consumed[1].kind = "SquareBracketOpen"
                /\ (/\ last_kind \in {"SquareBracketOpen", "Semicolon"}
                    /\ (parser'.lexer = <<>> \/ Head(parser'.lexer).kind \notin SpecifierTags)) =>
                       /\ parser'.errors =
                              Append(parser.errors,
                                     Describing(parser', Expected(<<"ForegroundSpecifier",
                                                                    "BackgroundSpecifier",
                                                                    "DecorationSpecifier">>)))
                       /\ ~styleCall'.ret.some
                       /\ calls' = Caller
                       /\ ret' = None
      ]_vars

\* [fg:red;](x) was parsed: the ; followed by ] gave the error at the ], and
\* no Styled token came of the block
C21_Witness ==
    /\ result.state = "parsed"
    /\ source = <<"[", "f", "g", ":", "r", "e", "d", ";", "]", "(", "x", ")">>
    /\ Len(styleCall.lexemes) = 5
    /\ ~styleCall.ret.some
    /\ result.errors[1] =
           [span |-> Some([start |-> 8, end |-> 9]), at |-> "SquareBracketClose",
            reason |-> Expected(<<"ForegroundSpecifier", "BackgroundSpecifier",
                                  "DecorationSpecifier">>)]
    /\ \A i \in DOMAIN result.tokens : result.tokens[i].kind = "Content"

\* C22: when the text of a span body has been read, content() consumes a ) and
\* markup returns the Styled token of the body; with any other lookahead (the
\* end of the input, a ( or a ]) it records the one error Expected(")") at that
\* lookahead, consumes nothing, and markup returns no token, the tokens of the
\* body being dropped; an input that is one well-formed style block and a span
\* that is never closed ends with no token at all
C22_SpanMustClose ==
    [][ /\ (calls # <<>> /\ Top.fn = "markup" /\ Top.pc = "content") =>
               IF parser.lexer # <<>> /\ Head(parser.lexer).kind = "ParenthesisClose"
               THEN /\ parser'.lexer = Tail(parser.lexer)
                    /\ parser'.errors = parser.errors
                    /\ ret'.some /\ ret'.value.kind = "Styled"
                    /\ ret.some => ret'.value.content = ret.value
               ELSE /\ parser'.lexer = parser.lexer
                    /\ parser'.errors =
                           Append(parser.errors,
                                  Describing(parser, Expected(<<"ParenthesisClose">>)))
                    /\ ret' = None
                    /\ calls' = Caller
        /\ (/\ result'.state = "parsed"
            /\ WellEscaped(source, 1)
            /\ Bare(source, 1) = <<"[", "]", "(">>
            /\ styleCall'.ret.some) =>
               /\ result'.tokens = <<>>
               /\ result'.errors = <<[span |-> None, at |-> "Eof",
                                       reason |-> Expected(<<"ParenthesisClose">>)]>>
      ]_vars

\* [fg:red](a(b) was parsed: the span stopped at the ( and gave no Styled
\* token, and the a read in it is gone
C22_Witness ==
    /\ result.state = "parsed"
    /\ source = <<"[", "f", "g", ":", "r", "e", "d", "]", "(", "a", "(", "b", ")">>
    /\ result.errors[1] =
           [span |-> Some([start |-> 10, end |-> 11]), at |-> "ParenthesisOpen",
            reason |-> Expected(<<"ParenthesisClose">>)]
    /\ \A i \in DOMAIN result.tokens : result.tokens[i].kind = "Content"
    /\ "a" \notin Range(Flatten(result.tokens))

\* C23: a turn of the loop of text() whose lookahead is an unescaped ) ( or ]
\* returns the tokens collected so far and leaves the parser as it was: the
\* lexeme is still the lookahead and no error is recorded; for the first call
\* of text() by parse the tokens returned are the literal content of the input
\* before that lexeme
C23_TextStops ==
    [][ (/\ calls # <<>> /\ Top.fn = "text" /\ Top.pc = "loop"
         /\ parser.lexer # <<>>
         /\ Head(parser.lexer).kind \in {"ParenthesisClose", "ParenthesisOpen",
                                          "SquareBracketClose"}) =>
            /\ source[Head(parser.lexer).span.start + 1] \in {")", "(", "]"}
            /\ parser' = parser
            /\ calls' = Caller
            /\ ret' = Some(Top.tokens)
            /\ (/\ Len(calls) = 2
                /\ calls[1].tokens = <<>>
                /\ parser.errors = <<>>) =>
                   Flatten(ret'.value) =
                       Literal(SubSeq(source, 1, Head(parser.lexer).span.start), 1)
      ]_vars

\* the first text() of a(b has returned at the ( with the Content a
C23_Witness ==
    /\ source = <<"a", "(", "b">>
    /\ Len(calls) = 1
    /\ Top.fn = "parse" /\ Top.pc = "text"
    /\ ret = Some(<<Content(<<"a">>)>>)
    /\ Len(parser.lexer) = 2
    /\ Head(parser.lexer).kind = "ParenthesisOpen"
    /\ parser.errors = <<>>

\* C24: text() never pushes an unescaped [ as text but calls markup at it; when
\* that markup has failed, the call of text() returns no tokens, whatever it
\* had collected, and parse adds nothing for that call; so the tokens of a
\* parse hold a [ only from an escape, and the input a[b ends with no token and
\* with errors
C24_FailedMarkupDropsText ==
    [][ /\ (/\ calls # <<>> /\ Top.fn = "text" /\ Top.pc = "loop"
            /\ parser.lexer # <<>> /\ Head(parser.lexer).kind = "SquareBracketOpen") =>
               /\ parser' = parser
               /\ Len(calls') = Len(calls) + 1
               /\ Top'.fn = "markup"
               /\ calls'[Len(calls)].tokens = Top.tokens
        /\ (calls # <<>> /\ Top.fn = "text" /\ Top.pc = "markup" /\ ~ret.some) =>
               /\ calls' = Caller
               /\ ret' = None
        /\ (calls # <<>> /\ Top.fn = "parse" /\ Top.pc = "text" /\ ~ret.some) =>
               \/ calls' # <<>> /\ Top'.tokens = Top.tokens
               \/ calls' = <<>> /\ result'.tokens = Top.tokens
        /\ (/\ result'.state = "parsed"
            /\ \A i \in 2..Len(source) : ~(source[i - 1] = "\\" /\ source[i] = "[")) =>
               "[" \notin Range(Flatten(result'.tokens))
        /\ (result'.state = "parsed" /\ source = <<"a", "[", "b">>) =>
               /\ result'.tokens = <<>>
               /\ result'.errors # <<>>
      ]_vars

\* a[b was parsed: two errors and no token, the a collected before the [ gone
C24_Witness ==
    /\ result.state = "parsed"
    /\ source = <<"a", "[", "b">>
    /\ result.tokens = <<>>
    /\ Len(result.errors) = 2
    /\ result.errors[1].at = "Text"

RECURSIVE Layout(_, _)
\* what the ordering asks of the output for tokens under ctx: each Content in
\* its place, and for each Styled its apply sequence, then the layout of its
\* children, then its reset sequence, then what follows it
Layout(tokens, ctx) ==
    IF tokens = <<>> THEN <<>>
    ELSE IF Head(tokens).kind = "Content"
    THEN Head(tokens).text \o Layout(Tail(tokens), ctx)
    ELSE With(CurrentStyle_extend(ctx, Head(tokens).style), LAMBDA ext :
             Style_apply(Head(tokens).style, ext.self, <<>>)
                 \o Layout(Head(tokens).content, ext.current)
                 \o Style_reset(Head(tokens).style, ext.self, <<>>)
                 \o Layout(Tail(tokens), ext.self))

\* C25: the output of a rendering is, token by token in document order, the
\* text of a Content, and for a Styled node its apply sequence, the output of
\* its children in order, and its reset sequence: the apply sequence of a node
\* comes before everything its children write and its reset sequence after,
\* so the reset of an inner span comes before the reset of the span around it
C25_OutputOrdering ==
    (result.state = "done" /\ result.ok) =>
        result.output = Layout(result.tokens, CurrentStyle_default)

\* a:b[fg:red](c\)d[bg:red](e)f,g)h was colorized: red is applied before c,
\* the inner span is applied and reset around e, and the red is reset after g
C25_Witness ==
    /\ result.state = "done"
    /\ result.ok
    /\ result.output =
           <<"a", ":", "b", "ESC[", "31", "m", "c", ")", "d", "ESC[", "41", "m", "e",
             "ESC[", "49", "m", "f", ",", "g", "ESC[", "39", "m", "h">>

RECURSIVE StripSgr(_)
\* units without its SGR sequences, each from an ESC[ to the m that ends it
StripSgr(units) ==
    IF units = <<>> THEN <<>>
    ELSE IF Head(units) = "ESC["
    THEN LET end == CHOOSE j \in 2..(Len(units) + 1) :
                        /\ j <= Len(units) => units[j] = "m"
                        /\ \A k \in 2..(j - 1) : units[k] # "m"
         IN  StripSgr(SubSeq(units, end + 1, Len(units)))
    ELSE <<Head(units)>> \o StripSgr(Tail(units))

\* C26: the output of a rendering without its SGR sequences is the texts of the
\* Content leaves of the tree, one after the other in document order: no
\* Content is changed, left out or written twice
C26_ContentVerbatim ==
    (result.state = "done" /\ result.ok) =>
        StripSgr(result.output) = Flatten(result.tokens)

\* a[bg:red](x)z was colorized: with the two sequences taken away the output
\* is axz
C26_Witness ==
    /\ result.state = "done"
    /\ result.ok
    /\ result.output = <<"a", "ESC[", "41", "m", "x", "ESC[", "49", "m", "z">>
    /\ StripSgr(result.output) = <<"a", "x", "z">>
    /\ Len(result.tokens) = 3

C28_StyleNeedsClose ==
    styleCall.ret.some =>
        /\ styleCall.lexemes # <<>>
        /\ styleCall.lexemes[Len(styleCall.lexemes)].kind = "SquareBracketClose"

\* the errors are in source order: span starts never decrease, and after an
\* error at the end of input (span None) come only errors at the end of input
SourceOrdered(errors) ==
    \A i \in 1..(Len(errors) - 1) :
        IF errors[i].span.some
        THEN errors[i + 1].span.some =>
                 errors[i].span.value.start <= errors[i + 1].span.value.start
        ELSE ~errors[i + 1].span.some

\* C29: every step of a parse leaves the errors already recorded where they
\* were and at most appends to them, and the list is in source order: the
\* span starts of successive errors never decrease, and an error at the end
\* of input is followed only by errors at the end of input
C29_ErrorsInSourceOrder ==
    [][/\ IsPrefix(parser.errors, parser.errors')
       /\ SourceOrdered(parser.errors')]_vars

\* a)[fg:red](x was parsed: the error at the ) of offset 1, then the error of
\* the missing closing parenthesis at the end of input
C29_Witness ==
    /\ result.state = "parsed"
    /\ source = <<"a", ")", "[", "f", "g", ":", "r", "e", "d", "]", "(", "x">>
    /\ Len(parser.errors) = 2
    /\ parser.errors[1].span = Some([start |-> 1, end |-> 2])
    /\ parser.errors[2].span = None

-----------------------------------------------------------------------------
\* The tokenizer of tokens.rs, built from nom combinators.  A parser is an
\* operator of the input and the position it starts at; it gives Ok with the
\* position of the rest and a value, Err(Error), which alt, fold_many0 and
\* separated_list1 recover from, or Err(Failure), which nothing recovers from.

IResult_Ok(i, value) == [tag |-> "Ok", i |-> i, value |-> value]
Err_Error == [tag |-> "Error"]
Err_Failure == [tag |-> "Failure"]

\* combinator::cut: an Error becomes a Failure
cut(r) == IF r.tag = "Error" THEN Err_Failure ELSE r

\* character::complete::char
char(c, input, i) ==
    IF i <= Len(input) /\ input[i] = c THEN IResult_Ok(i + 1, c) ELSE Err_Error

\* character::complete::multispace0: the position after the run of white space
multispace0(input, i) == i + WhitespaceLen(input, i)

\* character::complete::multispace1
multispace1(input, i) ==
    IF WhitespaceLen(input, i) > 0
    THEN IResult_Ok(i + WhitespaceLen(input, i), <<>>) ELSE Err_Error

\* bytes::complete::tag_no_case
tag_no_case(word, input, i) ==
    IF TokenLen(input, i, word) > 0 THEN IResult_Ok(i + Len(word), word) ELSE Err_Error

\* the alternatives of atoms::color, in the order of the source
color_tags ==
    << [name |-> <<"b", "l", "a", "c", "k">>, value |-> "Black"],
       [name |-> <<"r", "e", "d">>, value |-> "Red"],
       [name |-> <<"g", "r", "e", "e", "n">>, value |-> "Green"],
       [name |-> <<"y", "e", "l", "l", "o", "w">>, value |-> "Yellow"],
       [name |-> <<"b", "l", "u", "e">>, value |-> "Blue"],
       [name |-> <<"m", "a", "g", "e", "n", "t", "a">>, value |-> "Magenta"],
       [name |-> <<"c", "y", "a", "n">>, value |-> "Cyan"],
       [name |-> <<"w", "h", "i", "t", "e">>, value |-> "White"],
       [name |-> <<"d", "e", "f", "a", "u", "l", "t">>, value |-> "Default"],
       [name |-> <<"b", "r", "i", "g", "h", "t", "-", "b", "l", "a", "c", "k">>, value |-> "BrightBlack"],
       [name |-> <<"b", "r", "i", "g", "h", "t", "-", "r", "e", "d">>, value |-> "BrightRed"],
       [name |-> <<"b", "r", "i", "g", "h", "t", "-", "g", "r", "e", "e", "n">>, value |-> "BrightGreen"],
       [name |-> <<"b", "r", "i", "g", "h", "t", "-", "y", "e", "l", "l", "o", "w">>, value |-> "BrightYellow"],
       [name |-> <<"b", "r", "i", "g", "h", "t", "-", "b", "l", "u", "e">>, value |-> "BrightBlue"],
       [name |-> <<"b", "r", "i", "g", "h", "t", "-", "m", "a", "g", "e", "n", "t", "a">>, value |-> "BrightMagenta"],
       [name |-> <<"b", "r", "i", "g", "h", "t", "-", "c", "y", "a", "n">>, value |-> "BrightCyan"],
       [name |-> <<"b", "r", "i", "g", "h", "t", "-", "w", "h", "i", "t", "e">>, value |-> "BrightWhite"] >>

\* the alternatives of atoms::decoration, in the order of the source
decoration_tags ==
    << [name |-> <<"b", "o", "l", "d">>, value |-> "Bold"],
       [name |-> <<"d", "i", "m">>, value |-> "Dim"],
       [name |-> <<"f", "a", "i", "n", "t">>, value |-> "Dim"],
       [name |-> <<"i", "t", "a", "l", "i", "c">>, value |-> "Italic"],
       [name |-> <<"u", "n", "d", "e", "r", "l", "i", "n", "e">>, value |-> "Underline"],
       [name |-> <<"s", "l", "o", "w", "-", "b", "l", "i", "n", "k">>, value |-> "SlowBlink"],
       [name |-> <<"f", "a", "s", "t", "-", "b", "l", "i", "n", "k">>, value |-> "FastBlink"],
       [name |-> <<"i", "n", "v", "e", "r", "t">>, value |-> "Invert"],
       [name |-> <<"r", "e", "v", "e", "r", "s", "e">>, value |-> "Invert"],
       [name |-> <<"h", "i", "d", "e">>, value |-> "Hide"],
       [name |-> <<"c", "o", "n", "c", "e", "a", "l">>, value |-> "Hide"],
       [name |-> <<"s", "t", "r", "i", "k", "e", "t", "h", "r", "o", "u", "g", "h">>, value |-> "StrikeThrough"],
       [name |-> <<"s", "t", "r", "i", "k", "e", "-", "t", "h", "r", "o", "u", "g", "h">>, value |-> "StrikeThrough"] >>

RECURSIVE alt_tags(_, _, _, _)
\* alt((value(v, tag_no_case(word)), ..)): the first word of the list, from
\* the k-th on, that is at position i
alt_tags(tags, k, input, i) ==
    IF k > Len(tags) THEN Err_Error
    ELSE IF tag_no_case(tags[k].name, input, i).tag = "Ok"
    THEN IResult_Ok(i + Len(tags[k].name), tags[k].value)
    ELSE alt_tags(tags, k + 1, input, i)

\* atoms::color
color(input, i) == alt_tags(color_tags, 1, input, i)

\* atoms::decoration
decoration(input, i) == alt_tags(decoration_tags, 1, input, i)

\* atoms::whitespace: delimited(multispace0, inner, multispace0)
whitespace(inner(_, _), input, i) ==
    With(inner(input, multispace0(input, i)), LAMBDA r :
        IF r.tag = "Ok" THEN IResult_Ok(multispace0(input, r.i), r.value) ELSE r)

\* specifier::foreground_specifier
foreground_specifier(input, i) ==
    With(whitespace(LAMBDA s, j : tag_no_case(<<"f", "g">>, s, j), input, i), LAMBDA t :
    IF t.tag # "Ok" THEN t
    ELSE IF char(":", input, t.i).tag # "Ok" THEN Err_Error
    ELSE With(cut(whitespace(color, input, t.i + 1)), LAMBDA c :
         IF c.tag # "Ok" THEN c
         ELSE IResult_Ok(c.i, [specifier |-> "Foreground", value |-> c.value])))

\* specifier::background_specifier
background_specifier(input, i) ==
    With(whitespace(LAMBDA s, j : tag_no_case(<<"b", "g">>, s, j), input, i), LAMBDA t :
    IF t.tag # "Ok" THEN t
    ELSE IF char(":", input, t.i).tag # "Ok" THEN Err_Error
    ELSE With(cut(whitespace(color, input, t.i + 1)), LAMBDA c :
         IF c.tag # "Ok" THEN c
         ELSE IResult_Ok(c.i, [specifier |-> "Background", value |-> c.value])))

RECURSIVE decoration_list(_, _, _)
\* separated_list1(char(','), cut(whitespace(decoration))) once it has an
\* item: a comma asks for a further item
decoration_list(input, i, list) ==
    IF char(",", input, i).tag # "Ok" THEN IResult_Ok(i, list)
    ELSE With(cut(whitespace(decoration, input, i + 1)), LAMBDA d :
         IF d.tag # "Ok" THEN d
         ELSE decoration_list(input, d.i, Append(list, d.value)))

\* specifier::decoration_specifier
decoration_specifier(input, i) ==
    With(whitespace(LAMBDA s, j : tag_no_case(<<"d", "e", "c", "o">>, s, j), input, i), LAMBDA t :
    IF t.tag # "Ok" THEN t
    ELSE IF char(":", input, t.i).tag # "Ok" THEN Err_Error
    ELSE With(cut(whitespace(decoration, input, t.i + 1)), LAMBDA first :
         IF first.tag # "Ok" THEN first
         ELSE With(decoration_list(input, first.i, <<first.value>>), LAMBDA l :
              IF l.tag # "Ok" THEN l
              ELSE IResult_Ok(l.i, [specifier |-> "Decoration",
                                    value |-> IndexSet_extend(<<>>, l.value)]))))

\* specifier::style_specifier: alt of the three, the next tried after an Error
style_specifier(input, i) ==
    With(foreground_specifier(input, i), LAMBDA f :
    IF f.tag # "Error" THEN f
    ELSE With(background_specifier(input, i), LAMBDA b :
         IF b.tag # "Error" THEN b
         ELSE decoration_specifier(input, i)))

RECURSIVE style_specifier_list(_, _, _)
\* separated_list1(char(';'), style_specifier) once it has an item: after a
\* semicolon with no specifier behind it the list ends before the semicolon
style_specifier_list(input, i, list) ==
    IF char(";", input, i).tag # "Ok" THEN IResult_Ok(i, list)
    ELSE With(style_specifier(input, i + 1), LAMBDA sp :
         IF sp.tag = "Failure" THEN sp
         ELSE IF sp.tag = "Error" THEN IResult_Ok(i, list)
         ELSE style_specifier_list(input, sp.i, Append(list, sp.value)))

RECURSIVE style_fold(_, _)
\* the fold of specifier::style: the last specifier of a kind takes precedence
style_fold(acc, specifiers) ==
    IF specifiers = <<>> THEN acc
    ELSE With(Head(specifiers), LAMBDA sp :
         style_fold(CASE sp.specifier = "Foreground" -> [acc EXCEPT !.foreground = sp.value]
                      [] sp.specifier = "Background" -> [acc EXCEPT !.background = sp.value]
                      [] sp.specifier = "Decoration" ->
                             [acc EXCEPT !.decoration = SomeDecoration(sp.value)],
                    Tail(specifiers)))

\* specifier::style
style(input, i) ==
    IF char("[", input, i).tag # "Ok" THEN Err_Error
    ELSE cut(With(style_specifier(input, i + 1), LAMBDA first :
         IF first.tag # "Ok" THEN first
         ELSE With(style_specifier_list(input, first.i, <<first.value>>), LAMBDA l :
              IF l.tag # "Ok" THEN l
              ELSE IF char("]", input, l.i).tag # "Ok" THEN Err_Error
              ELSE IResult_Ok(l.i + 1, style_fold(Style_default, l.value)))))

RECURSIVE is_not_len(_, _)
\* length of the run of characters other than ( ) [ ] \ at position i
is_not_len(input, i) ==
    IF i <= Len(input) /\ input[i] \notin EscapableCharacters
    THEN 1 + is_not_len(input, i + 1) ELSE 0

\* content::literal_string
literal_string(input, i) ==
    With(is_not_len(input, i), LAMBDA n :
        IF n = 0 THEN Err_Error ELSE IResult_Ok(i + n, SubSeq(input, i, i + n - 1)))

\* content::escaped_char: Some(character), or None for escaped white space
escaped_char(input, i) ==
    IF char("\\", input, i).tag # "Ok" THEN Err_Error
    ELSE cut(IF i + 1 <= Len(input) /\ input[i + 1] \in EscapableCharacters
             THEN IResult_Ok(i + 2, Some(input[i + 1]))
             ELSE With(multispace1(input, i + 1), LAMBDA w :
                  IF w.tag # "Ok" THEN w ELSE IResult_Ok(w.i, None)))

RECURSIVE text_fold(_, _, _), fragment(_, _), styled_text(_, _), content(_, _)
\* fold_many0(fragment, Tokens::default, ..) of content::text: fragments are
\* folded into the tokens until one gives an Error
text_fold(input, i, tokens) ==
    With(fragment(input, i), LAMBDA f :
        IF f.tag = "Failure" THEN f
        ELSE IF f.tag = "Error" THEN IResult_Ok(i, tokens)
        ELSE text_fold(input, f.i,
                 CASE f.value.fragment = "Literal" -> Tokens_push_str(tokens, f.value.s)
                   [] f.value.fragment = "EscapedCharacter" ->
                          Tokens_push_char(tokens, f.value.c)
                   [] f.value.fragment = "EscapedWhitespace" -> tokens
                   [] f.value.fragment = "Token" -> Tokens_push(tokens, f.value.token)))

\* content::fragment
fragment(input, i) ==
    With(styled_text(input, i), LAMBDA st :
    IF st.tag = "Ok" THEN IResult_Ok(st.i, [fragment |-> "Token", token |-> st.value])
    ELSE IF st.tag = "Failure" THEN st
    ELSE With(literal_string(input, i), LAMBDA lit :
         IF lit.tag = "Ok" THEN IResult_Ok(lit.i, [fragment |-> "Literal", s |-> lit.value])
         ELSE With(escaped_char(input, i), LAMBDA esc :
              IF esc.tag # "Ok" THEN esc
              ELSE IF esc.value.some
              THEN IResult_Ok(esc.i, [fragment |-> "EscapedCharacter", c |-> esc.value.value])
              ELSE IResult_Ok(esc.i, [fragment |-> "EscapedWhitespace"]))))

\* content::styled_text: pair(style, content)
styled_text(input, i) ==
    With(style(input, i), LAMBDA st :
    IF st.tag # "Ok" THEN st
    ELSE With(content(input, st.i), LAMBDA c :
         IF c.tag # "Ok" THEN c
         ELSE IResult_Ok(c.i, Styled(st.value, c.value))))

\* content::content: preceded(char('('), cut(terminated(text, char(')'))))
content(input, i) ==
    IF char("(", input, i).tag # "Ok" THEN Err_Error
    ELSE cut(With(text_fold(input, i + 1, Tokens_default), LAMBDA t :
         IF t.tag # "Ok" THEN t
         ELSE IF char(")", input, t.i).tag # "Ok" THEN Err_Error
         ELSE IResult_Ok(t.i + 1, t.value)))

\* content::text
text(input, i) == text_fold(input, i, Tokens_default)

\* tokens::tokenize: all_consuming(complete(content::text)); Ok with the
\* tokens when the whole input was consumed, Err otherwise
tokenize(input) ==
    With(text(input, 1), LAMBDA r :
        IF r.tag = "Ok" /\ r.i = Len(input) + 1
        THEN [ok |-> TRUE, tokens |-> r.value]
        ELSE [ok |-> FALSE, tokens |-> <<>>])

\* C30: tokenize and Parser::parse agree on every input: tokenize returns Ok
\* exactly when parse returns no error, and on an input both accept the two
\* build the same tokens, style blocks with white space around a tag or a
\* value included
C30_ParsersAgree ==
    result.state = "parsed" =>
        With(tokenize(source), LAMBDA t :
            /\ t.ok <=> result.errors = <<>>
            /\ t.ok => t.tokens = result.tokens)

====
